---- MODULE Spec2Model ----
(***************************************************************************)
(* Inventory consumption engine of the cafe point-of-sale backend:         *)
(* order placement with Bill-of-Materials stock deduction                  *)
(* (routes/orders.js, POST /), the inventory administration routes         *)
(* (routes/inventory.js) and the unit conversions.                         *)
(*                                                                         *)
(* Storage is PostgreSQL at its default isolation level READ COMMITTED.    *)
(* A statement sent with client.query between BEGIN and COMMIT belongs to  *)
(* the client's transaction: its writes are private until COMMIT, a row it *)
(* updates stays locked until COMMIT or ROLLBACK, and an UPDATE of a row   *)
(* locked by another transaction waits and then acts on the row as the     *)
(* other transaction left it.  A statement that fails inside a transaction *)
(* puts the transaction in the failed state: every later statement fails   *)
(* and COMMIT rolls back without raising an error.  A statement sent with  *)
(* pool.query is a transaction of its own.                                 *)
(*                                                                         *)
(* Quantities are fixed-point numbers counted in ticks of 0.0001: the      *)
(* columns are NUMERIC(10,3), so a stored value is a multiple of Milli,    *)
(* and the JavaScript side may hold one more decimal (0.5 g = 0.0005 kg).  *)
(* In the order and inventory specifications JavaScript arithmetic on      *)
(* these quantities is exact decimal arithmetic.  The conversion           *)
(* specification also carries the conversions on JavaScript Numbers        *)
(* (IEEE-754 binary64, round to nearest, ties to even), where a division   *)
(* by 1000 and the multiplication that undoes it each round.               *)
(***************************************************************************)
EXTENDS Integers, Sequences, FiniteSets, TLC

\* ---------------------------------------------------------------- bounds
NumClients == 2
MaxOrders == 2
MaxLines == 2
MaxQtySold == 1
MaxFaults == 1
NumAdmins == 2
MaxAdminOps == 3
MaxThousandths == 125
MaxCatalogOps == 2

\* ------------------------------------------------------- program constants
Thousand == 1000
Milli == 10
One == Thousand * Milli

Clients == 1..NumClients
Admins == 1..NumAdmins
Items == {1, 2}
Products == {1, 2}
NoClient == 0

Units == {"grams", "kilograms", "pieces", "liters", "ml"}

Max(a, b) == IF a >= b THEN a ELSE b

\* A value assigned to a NUMERIC(10,3) column is rounded to three decimals,
\* ties away from zero.
RoundAbs(x) == ((x + Milli \div 2) \div Milli) * Milli
RoundScale3(x) == IF x >= 0 THEN RoundAbs(x) ELSE 0 - RoundAbs(0 - x)

\* GREATEST(0, quantity - $1) stored in inventory_items.quantity.
Greatest0Wrong(quantity, deduct) == RoundScale3(quantity - deduct)
Greatest0(quantity, deduct) == RoundScale3(Max(0, quantity - deduct))

\* The inline unit conversion of the order route.
ConvertQtySwapped(qty, requiredUnit, inventoryUnit) ==
    IF requiredUnit # inventoryUnit
    THEN IF requiredUnit = "grams" /\ inventoryUnit = "kilograms" THEN qty * Thousand
         ELSE IF requiredUnit = "kilograms" /\ inventoryUnit = "grams" THEN qty \div Thousand
         ELSE IF requiredUnit = "ml" /\ inventoryUnit = "liters" THEN qty * Thousand
         ELSE IF requiredUnit = "liters" /\ inventoryUnit = "ml" THEN qty \div Thousand
         ELSE qty
    ELSE qty
ConvertQty(qty, requiredUnit, inventoryUnit) ==
    IF requiredUnit # inventoryUnit
    THEN IF requiredUnit = "grams" /\ inventoryUnit = "kilograms" THEN qty \div Thousand
         ELSE IF requiredUnit = "kilograms" /\ inventoryUnit = "grams" THEN qty * Thousand
         ELSE IF requiredUnit = "ml" /\ inventoryUnit = "liters" THEN qty \div Thousand
         ELSE IF requiredUnit = "liters" /\ inventoryUnit = "ml" THEN qty * Thousand
         ELSE qty
    ELSE qty

\* qtyNeeded before the stock check: quantity_required * item.qty, converted.
QtyNeeded(bomRow, qtySold) ==
    ConvertQty(bomRow.quantity_required * qtySold, bomRow.unit, bomRow.inventory_unit)

\* "Deduct only what's available".
ClampNoCheck(needed, currentQty) == needed
Clamp(needed, currentQty) == IF currentQty < needed THEN currentQty ELSE needed

\* ------------------------------------------------------------------ state
VARIABLES
    inv,          \* inventory_items: item id -> [present, quantity, unit]
    bom,          \* product_inventory: set of rows, UNIQUE(product_id, inventory_item_id)
    orders,       \* orders: set of committed order ids
    order_items,  \* order_items: committed rows [order_id, product_id, qty], in insertion order
    ledger,       \* inventory_transactions: committed rows, in commit order
    lock,         \* row lock of each inventory_items row: the client whose transaction holds it
    pend,         \* the uncommitted quantity written by the holder of the row lock
    tx,           \* per client: the request in flight (position, locals, uncommitted inserts)
    nextOrderId,  \* the orders_id_seq sequence
    faults,       \* storage faults injected so far
    conv,         \* the unit conversion under evaluation (input and result)
    adm,          \* per administrator: the inventory request in flight
    nextItemId,   \* the inventory_items_id_seq sequence
    adminOps,     \* inventory requests received so far
    products,     \* products: the ids of the rows
    ingredients,  \* product_ingredients: set of rows, one per (product_id, inventory_item_id)
    cat,          \* per administrator: the BOM or recipe request in flight, then its response
    nextBomId,    \* the product_inventory_id_seq sequence
    catOps,       \* BOM and recipe requests received so far
    alerts        \* the alert query under evaluation (the table it reads and its result)

vars ==
    <<inv, bom, orders, order_items, ledger, lock, pend, tx, nextOrderId, faults, conv,
      adm, nextItemId, adminOps, products, ingredients, cat, nextBomId, catOps, alerts>>

\* What Init draws the catalog from.
InitStock == 3 * One
ReqQtys == {One \div 2, 2 * One}
StockUnits == {"grams", "kilograms"}
BomUnits == {"grams", "kilograms", "pieces"}
QtySold == 1..MaxQtySold

OrderLines == [product_id : Products, qty : QtySold]
Requests == UNION {[1..n -> OrderLines] : n \in 0..MaxLines}

IdleTx ==
    [pc |-> "idle", lines |-> <<>>, orderId |-> 0, line |-> 0, rows |-> <<>>, row |-> 0,
     qtyNeeded |-> 0, aborted |-> FALSE, newLedger |-> <<>>, status |-> 0, err |-> ""]

\* An inventory_transactions row.
LedgerRow(item, type, quantity, unit, ref) ==
    [inventory_item_id |-> item, transaction_type |-> type,
     quantity |-> RoundScale3(quantity), unit |-> unit, reference_id |-> ref]

NoConv == [op |-> "none"]

\* A request field that the body does not carry.
NoUnit == "undefined"

IdleAdmin ==
    [pc |-> "idle", item |-> 0, hasQuantity |-> FALSE, quantity |-> 0,
     unit |-> NoUnit, found |-> FALSE, oldQty |-> 0, oldUnit |-> NoUnit,
     status |-> 0, message |-> ""]

NoItem == [present |-> FALSE, quantity |-> 0, unit |-> "grams"]

\* The BOM and recipe routes, the products table and the alert queries.
Catalog == <<products, ingredients, cat, nextBomId, catOps, alerts>>

IdleCat ==
    [pc |-> "idle", op |-> "none", product |-> 0, id |-> 0, item |-> 0, quantity |-> 0,
     unit |-> NoUnit, list |-> <<>>, rows |-> <<>>, status |-> 0, message |-> "",
     k |-> 0, snap |-> {}, del |-> {}, ins |-> {}]

NoAlerts == [op |-> "none"]

\* Every product exists, no recipe is stored, no BOM or recipe request was made.
CatalogAtRest ==
    /\ products = Products
    /\ ingredients = {}
    /\ cat = [a \in Admins |-> IdleCat]
    /\ nextBomId = Cardinality(bom) + 1
    /\ catOps = 0
    /\ alerts = NoAlerts

\* The catalog: item 1 is a weighed ingredient, item 2 is counted; product 1 uses
\* both, product 2 tracks no ingredient.  Every item was created through
\* POST /inventory, which logged its initial stock.
Init ==
    /\ \E u \in StockUnits :
          /\ inv = (1 :> [present |-> TRUE, quantity |-> InitStock, unit |-> u])
                @@ (2 :> [present |-> TRUE, quantity |-> One, unit |-> "pieces"])
          /\ ledger = << LedgerRow(1, "ADD", InitStock, u, 0),
                         LedgerRow(2, "ADD", One, "pieces", 0) >>
    /\ \E r \in ReqQtys, u \in BomUnits :
          bom = { [id |-> 1, product_id |-> 1, inventory_item_id |-> 1,
                   quantity_required |-> r, unit |-> u],
                  [id |-> 2, product_id |-> 1, inventory_item_id |-> 2,
                   quantity_required |-> One, unit |-> "pieces"] }
    /\ orders = {}
    /\ order_items = <<>>
    /\ lock = [i \in Items |-> NoClient]
    /\ pend = [i \in Items |-> 0]
    /\ tx = [c \in Clients |-> IdleTx]
    /\ nextOrderId = 1
    /\ faults = 0
    /\ conv = NoConv
    /\ adm = [a \in Admins |-> IdleAdmin]
    /\ nextItemId = Cardinality(Items) + 1
    /\ adminOps = 0
    /\ CatalogAtRest

\* ---------------------------------------------------------------- helpers
\* The quantity of a row as a statement of client c reads it: its own
\* uncommitted write, else the last committed value.
Visible(c, i) == IF lock[i] = c THEN pend[i] ELSE inv[i].quantity

\* All orderings of a finite set of rows (a SELECT without ORDER BY).
Orderings(S) ==
    {f \in [1..Cardinality(S) -> S] : \A a, b \in 1..Cardinality(S) : a # b => f[a] # f[b]}

\* The BOM query of the order route: product_inventory JOIN inventory_items.
BomResultAnyProduct(c, product) ==
    { [inventory_item_id |-> b.inventory_item_id,
       quantity_required |-> b.quantity_required,
       unit |-> b.unit,
       current_quantity |-> Visible(c, b.inventory_item_id),
       inventory_unit |-> inv[b.inventory_item_id].unit]
      : b \in {x \in bom : inv[x.inventory_item_id].present} }
BomResult(c, product) ==
    { [inventory_item_id |-> b.inventory_item_id,
       quantity_required |-> b.quantity_required,
       unit |-> b.unit,
       current_quantity |-> Visible(c, b.inventory_item_id),
       inventory_unit |-> inv[b.inventory_item_id].unit]
      : b \in {x \in bom : x.product_id = product /\ inv[x.inventory_item_id].present} }

\* The request is over: what is left of it is the response (res.status, id).
Response(status, id, err) ==
    [IdleTx EXCEPT !.pc = "done", !.status = status, !.orderId = id, !.err = err]

\* Rows the transaction of client c holds locked are released, its writes dropped.
Release(c) ==
    /\ lock' = [i \in Items |-> IF lock[i] = c THEN NoClient ELSE lock[i]]
    /\ pend' = [i \in Items |-> IF lock[i] = c THEN 0 ELSE pend[i]]

\* The catch block: ROLLBACK, console.error(err), then 500.
RollbackNoTransaction(c, err) ==
    /\ inv' = [i \in Items |-> IF lock[i] = c THEN [inv[i] EXCEPT !.quantity = pend[i]]
                                               ELSE inv[i]]
    /\ ledger' = ledger \o tx[c].newLedger
    /\ Release(c)
    /\ tx' = [tx EXCEPT ![c] = Response(500, 0, err)]
    /\ UNCHANGED <<bom, orders, order_items>>
Rollback(c, err) ==
    /\ Release(c)
    /\ tx' = [tx EXCEPT ![c] = Response(500, 0, err)]
    /\ UNCHANGED <<inv, bom, orders, order_items, ledger>>

\* Where the loops of the order route go after the current BOM row.
AfterRowSkipsRest(t) ==
    IF t.line < Len(t.lines) THEN [t EXCEPT !.pc = "selectBom", !.line = t.line + 1]
    ELSE [t EXCEPT !.pc = "commit"]
AfterRow(t) ==
    IF t.row < Len(t.rows) THEN [t EXCEPT !.pc = "row", !.row = t.row + 1]
    ELSE IF t.line < Len(t.lines) THEN [t EXCEPT !.pc = "selectBom", !.line = t.line + 1]
    ELSE [t EXCEPT !.pc = "commit"]

CurLine(t) == t.lines[t.line]
CurRow(t) == t.rows[t.row]

\* qtyNeeded as the route holds it when it reaches "if (qtyNeeded > 0)".
Deduction(t) == Clamp(QtyNeeded(CurRow(t), CurLine(t).qty), CurRow(t).current_quantity)

\* The row whose lock the UPDATE of client c is about to ask for (0: none).
WantsItem(c) ==
    IF tx[c].pc = "row" /\ ~tx[c].aborted /\ Deduction(tx[c]) > 0
       /\ inv[CurRow(tx[c]).inventory_item_id].present
    THEN CurRow(tx[c]).inventory_item_id
    ELSE 0

Blocked(c) == WantsItem(c) # 0 /\ lock[WantsItem(c)] \notin {NoClient, c}

\* The clients client c waits for, directly or through others.
RECURSIVE WaitsFor(_, _)
WaitsFor(S, n) ==
    IF n = 0 THEN S
    ELSE WaitsFor(S \cup {lock[WantsItem(d)] : d \in {e \in S : Blocked(e)}}, n - 1)

Deadlocked(c) ==
    Blocked(c) /\ c \in WaitsFor({lock[WantsItem(c)]}, NumClients)

\* ------------------------------------------------ POST /api/orders (orders.js)
\* What the order route leaves alone: the inventory requests in flight.
InventoryRequests == <<conv, adm, nextItemId, adminOps>>

Free(c) == tx[c].pc \in {"idle", "done"}

\* Request validation, pool.connect (the request is served on the first free
\* connection), BEGIN.
PlaceOrder(c, lines) ==
    /\ UNCHANGED InventoryRequests
    /\ UNCHANGED Catalog
    /\ Free(c)
    /\ \A d \in Clients : d < c => ~Free(d)
    /\ IF Len(lines) = 0
       THEN tx' = [tx EXCEPT ![c] = Response(400, 0, "")]
       ELSE /\ nextOrderId + Cardinality({d \in Clients : tx[d].pc = "insertOrder"})
                  <= MaxOrders
            /\ tx' = [tx EXCEPT ![c] = [IdleTx EXCEPT !.pc = "insertOrder", !.lines = lines]]
    /\ UNCHANGED <<inv, bom, orders, order_items, ledger, lock, pend, nextOrderId, faults>>

\* INSERT INTO orders ... RETURNING id
InsertOrder(c) ==
    /\ UNCHANGED InventoryRequests
    /\ UNCHANGED Catalog
    /\ tx[c].pc = "insertOrder"
    /\ tx' = [tx EXCEPT ![c] = [@ EXCEPT !.pc = "insertItems", !.orderId = nextOrderId]]
    /\ nextOrderId' = nextOrderId + 1
    /\ UNCHANGED <<inv, bom, orders, order_items, ledger, lock, pend, faults>>

\* INSERT INTO order_items, one per line; Promise.all
InsertItems(c) ==
    /\ UNCHANGED InventoryRequests
    /\ UNCHANGED Catalog
    /\ tx[c].pc = "insertItems"
    /\ tx' = [tx EXCEPT ![c] = [@ EXCEPT !.pc = "selectBom", !.line = 1]]
    /\ UNCHANGED <<inv, bom, orders, order_items, ledger, lock, pend, nextOrderId, faults>>

\* SELECT ... FROM product_inventory pi JOIN inventory_items ii ... for the current line
SelectBom(c) ==
    /\ UNCHANGED InventoryRequests
    /\ UNCHANGED Catalog
    /\ tx[c].pc = "selectBom"
    /\ IF tx[c].aborted
       THEN Rollback(c, "failed_tx")
       ELSE /\ \E rs \in Orderings(BomResult(c, CurLine(tx[c]).product_id)) :
                 tx' = [tx EXCEPT ![c] = AfterRow([@ EXCEPT !.rows = rs, !.row = 0])]
            /\ UNCHANGED <<inv, bom, orders, order_items, ledger, lock, pend>>
    /\ UNCHANGED <<nextOrderId, faults>>

\* One BOM row: conversion, stock check, and the UPDATE when qtyNeeded > 0.
DeductRow(c) ==
    /\ UNCHANGED InventoryRequests
    /\ UNCHANGED Catalog
    /\ tx[c].pc = "row"
    /\ LET t == tx[c]
           i == CurRow(t).inventory_item_id
           d == Deduction(t)
       IN  IF d > 0
           THEN IF t.aborted
                THEN Rollback(c, "failed_tx")
                ELSE /\ lock[i] \in {NoClient, c} \/ ~inv[i].present
                     /\ IF inv[i].present
                        THEN /\ pend' = [pend EXCEPT ![i] = Greatest0(Visible(c, i), d)]
                             /\ lock' = [lock EXCEPT ![i] = c]
                        ELSE UNCHANGED <<lock, pend>>
                     /\ tx' = [tx EXCEPT ![c] = [@ EXCEPT !.pc = "ledger", !.qtyNeeded = d]]
                     /\ UNCHANGED <<inv, bom, orders, order_items, ledger>>
           ELSE /\ tx' = [tx EXCEPT ![c] = AfterRow([t EXCEPT !.qtyNeeded = d])]
                /\ UNCHANGED <<inv, bom, orders, order_items, ledger, lock, pend>>
    /\ UNCHANGED <<nextOrderId, faults>>

\* INSERT INTO inventory_transactions ... 'SALE', inside try/catch.
LogSale(c) ==
    /\ UNCHANGED InventoryRequests
    /\ UNCHANGED Catalog
    /\ tx[c].pc = "ledger"
    /\ LET t == tx[c]
           r == CurRow(t)
       IN  IF t.aborted \/ ~inv[r.inventory_item_id].present
           THEN tx' = [tx EXCEPT ![c] = AfterRow([t EXCEPT !.aborted = TRUE])]
           ELSE tx' = [tx EXCEPT ![c] = AfterRow([t EXCEPT !.newLedger =
                          Append(@, LedgerRow(r.inventory_item_id, "SALE", t.qtyNeeded,
                                              r.inventory_unit, t.orderId))])]
    /\ UNCHANGED <<inv, bom, orders, order_items, ledger, lock, pend, nextOrderId, faults>>

\* What COMMIT makes visible.
CommitWrites(c) ==
    /\ inv' = [i \in Items |-> IF lock[i] = c THEN [inv[i] EXCEPT !.quantity = pend[i]]
                                               ELSE inv[i]]
    /\ ledger' = ledger \o tx[c].newLedger
    /\ orders' = orders \cup {tx[c].orderId}
    /\ order_items' = order_items \o
          [k \in 1..Len(tx[c].lines) |->
              [order_id |-> tx[c].orderId, product_id |-> tx[c].lines[k].product_id,
               qty |-> tx[c].lines[k].qty]]

\* COMMIT, then 201 with the order id.
Commit(c) ==
    /\ UNCHANGED InventoryRequests
    /\ UNCHANGED Catalog
    /\ tx[c].pc = "commit"
    /\ IF tx[c].aborted
       THEN UNCHANGED <<inv, ledger, orders, order_items>>
       ELSE CommitWrites(c)
    /\ Release(c)
    /\ tx' = [tx EXCEPT ![c] = Response(201, tx[c].orderId, "")]
    /\ UNCHANGED <<bom, nextOrderId, faults>>

\* A statement of the transaction fails in the storage layer.
Fault(c) ==
    /\ UNCHANGED InventoryRequests
    /\ UNCHANGED Catalog
    /\ faults < MaxFaults
    /\ faults' = faults + 1
    /\ UNCHANGED nextOrderId
    /\ \/ /\ tx[c].pc \in {"insertOrder", "insertItems", "selectBom", "commit"}
          /\ Rollback(c, "storage")
       \/ /\ tx[c].pc = "row"
          /\ Deduction(tx[c]) > 0
          /\ Rollback(c, "storage")
       \/ /\ tx[c].pc = "ledger"
          /\ tx' = [tx EXCEPT ![c] = AfterRow([@ EXCEPT !.aborted = TRUE])]
          /\ UNCHANGED <<inv, bom, orders, order_items, ledger, lock, pend>>

\* PostgreSQL's deadlock detector fails the UPDATE of a transaction in a lock cycle.
DeadlockAbort(c) ==
    /\ UNCHANGED InventoryRequests
    /\ UNCHANGED Catalog
    /\ Deadlocked(c)
    /\ Rollback(c, "deadlock")
    /\ UNCHANGED <<nextOrderId, faults>>

OrderStep(c) ==
    \/ \E lines \in Requests : PlaceOrder(c, lines)
    \/ InsertOrder(c)
    \/ InsertItems(c)
    \/ SelectBom(c)
    \/ DeductRow(c)
    \/ LogSale(c)
    \/ Commit(c)
    \/ Fault(c)
    \/ DeadlockAbort(c)

NextOrders == \E c \in Clients : OrderStep(c)

SpecOrders == Init /\ [][NextOrders]_vars

\* ------------------------------------------ /api/inventory (routes/inventory.js)
AdminFree(a) == adm[a].pc \in {"idle", "done"}

\* A request is received and served by the first free administrator session.
Receive(a) ==
    /\ AdminFree(a)
    /\ \A b \in Admins : b < a => ~AdminFree(b)
    /\ adminOps < MaxAdminOps
    /\ adminOps' = adminOps + 1

AdminResponse(status, message) ==
    [IdleAdmin EXCEPT !.pc = "done", !.status = status, !.message = message]

OrderTables == <<orders, order_items, lock, pend, tx, nextOrderId>>

\* Request bodies.
CreateBodies == [name : BOOLEAN, quantity : {0 - One, One}, unit : {"pieces", "cups"}]
EditBodies ==
    {b \in [name : BOOLEAN, hasQuantity : BOOLEAN, quantity : {0 - One, 0, 2 * One},
            unit : {NoUnit, "kilograms"}] : ~b.hasQuantity => b.quantity = 0}
StockQtys == {0, One, 2 * One}

\* pool.query INSERT INTO inventory_transactions: a row of a transaction of its
\* own; the foreign key needs the item.
InsertLedger(row) ==
    IF inv[row.inventory_item_id].present THEN Append(ledger, row) ELSE ledger

\* POST / : validation, then INSERT INTO inventory_items ... RETURNING *
CreateItem(a, body) ==
    /\ Receive(a)
    /\ IF ~body.name
       THEN /\ adm' = [adm EXCEPT ![a] = AdminResponse(400, "Name is required")]
            /\ UNCHANGED <<inv, nextItemId>>
       ELSE IF body.unit \notin Units
       THEN /\ adm' = [adm EXCEPT ![a] = AdminResponse(400, "Invalid unit")]
            /\ UNCHANGED <<inv, nextItemId>>
       ELSE /\ nextItemId \in Items
            /\ inv' = [inv EXCEPT ![nextItemId] =
                          [present |-> TRUE, quantity |-> RoundScale3(body.quantity),
                           unit |-> body.unit]]
            /\ nextItemId' = nextItemId + 1
            /\ adm' = [adm EXCEPT ![a] =
                          [IdleAdmin EXCEPT !.pc = "createLog", !.item = nextItemId,
                                            !.quantity = body.quantity, !.unit = body.unit]]
    /\ UNCHANGED <<bom, ledger, faults, conv>>
    /\ UNCHANGED OrderTables
    /\ UNCHANGED Catalog

\* POST / : the 'ADD' "Initial stock" row in try/catch, then 201.
LogInitial(a) ==
    /\ adm[a].pc = "createLog"
    /\ ledger' = InsertLedger(LedgerRow(adm[a].item, "ADD", adm[a].quantity, adm[a].unit, 0))
    /\ adm' = [adm EXCEPT ![a] = AdminResponse(201, "")]
    /\ UNCHANGED <<inv, bom, faults, conv, nextItemId, adminOps>>
    /\ UNCHANGED OrderTables
    /\ UNCHANGED Catalog

\* PUT /:id : validation, then SELECT quantity, unit
EditItem(a, i, body) ==
    /\ Receive(a)
    /\ IF ~body.name
       THEN adm' = [adm EXCEPT ![a] = AdminResponse(400, "Name is required")]
       ELSE adm' = [adm EXCEPT ![a] =
                      [IdleAdmin EXCEPT !.pc = "editUpdate", !.item = i,
                                        !.hasQuantity = body.hasQuantity,
                                        !.quantity = body.quantity, !.unit = body.unit,
                                        !.found = inv[i].present,
                                        !.oldQty = inv[i].quantity,
                                        !.oldUnit = inv[i].unit]]
    /\ UNCHANGED <<inv, bom, ledger, faults, conv, nextItemId>>
    /\ UNCHANGED OrderTables
    /\ UNCHANGED Catalog

\* |newQty - oldQty|
AbsDiff(newQty, oldQty) == IF newQty >= oldQty THEN newQty - oldQty ELSE oldQty - newQty

\* PUT /:id : UPDATE ... SET quantity = COALESCE($2, quantity), unit = COALESCE($3, unit)
EditUpdate(a) ==
    /\ adm[a].pc = "editUpdate"
    /\ LET r == adm[a]
           i == r.item
       IN  /\ lock[i] = NoClient
           /\ IF ~inv[i].present
              THEN /\ adm' = [adm EXCEPT ![a] = AdminResponse(404, "Inventory item not found")]
                   /\ UNCHANGED inv
              ELSE /\ inv' = [inv EXCEPT ![i] =
                                 [present |-> TRUE,
                                  quantity |-> IF r.hasQuantity THEN RoundScale3(r.quantity)
                                               ELSE inv[i].quantity,
                                  unit |-> IF r.unit # NoUnit THEN r.unit ELSE inv[i].unit]]
                   /\ IF r.hasQuantity /\ r.found /\ AbsDiff(r.quantity, r.oldQty) > Milli
                      THEN adm' = [adm EXCEPT ![a] = [r EXCEPT !.pc = "editLog"]]
                      ELSE adm' = [adm EXCEPT ![a] = AdminResponse(200, "")]
    /\ UNCHANGED <<bom, ledger, faults, conv, nextItemId, adminOps>>
    /\ UNCHANGED OrderTables
    /\ UNCHANGED Catalog

\* PUT /:id : the 'ADJUST' row in try/catch, then 200.
EditLog(a) ==
    /\ adm[a].pc = "editLog"
    /\ ledger' = InsertLedger(LedgerRow(adm[a].item, "ADJUST",
                                        AbsDiff(adm[a].quantity, adm[a].oldQty),
                                        IF adm[a].unit # NoUnit THEN adm[a].unit
                                        ELSE adm[a].oldUnit, 0))
    /\ adm' = [adm EXCEPT ![a] = AdminResponse(200, "")]
    /\ UNCHANGED <<inv, bom, faults, conv, nextItemId, adminOps>>
    /\ UNCHANGED OrderTables
    /\ UNCHANGED Catalog

\* product_inventory after the rows of item i went with it (ON DELETE CASCADE).
BomKeptOnDelete(i) == bom
BomWithoutItem(i) == {b \in bom : b.inventory_item_id # i}

\* DELETE /:id ; product_inventory and inventory_transactions rows go with the
\* item (ON DELETE CASCADE).
DeleteItem(a, i) ==
    /\ Receive(a)
    /\ lock[i] = NoClient
    /\ IF ~inv[i].present
       THEN /\ adm' = [adm EXCEPT ![a] = AdminResponse(404, "Inventory item not found")]
            /\ UNCHANGED <<inv, bom, ledger>>
       ELSE /\ inv' = [inv EXCEPT ![i] = NoItem]
            /\ bom' = BomWithoutItem(i)
            /\ ledger' = SelectSeq(ledger, LAMBDA r : r.inventory_item_id # i)
            /\ adm' = [adm EXCEPT ![a] = AdminResponse(200, "")]
    /\ UNCHANGED <<faults, conv, nextItemId>>
    /\ UNCHANGED OrderTables
    /\ UNCHANGED Catalog

\* POST /:id/add : validation, then UPDATE ... SET quantity = quantity + $1
AddStock(a, i, quantity) ==
    /\ Receive(a)
    /\ IF quantity <= 0
       THEN /\ adm' = [adm EXCEPT ![a] = AdminResponse(400, "Quantity must be greater than 0")]
            /\ UNCHANGED inv
       ELSE /\ lock[i] = NoClient
            /\ IF ~inv[i].present
               THEN /\ adm' = [adm EXCEPT ![a] = AdminResponse(404, "Inventory item not found")]
                    /\ UNCHANGED inv
               ELSE /\ inv' = [inv EXCEPT ![i].quantity = RoundScale3(@ + quantity)]
                    /\ adm' = [adm EXCEPT ![a] =
                                  [IdleAdmin EXCEPT !.pc = "addLog", !.item = i,
                                                    !.quantity = quantity,
                                                    !.unit = inv[i].unit]]
    /\ UNCHANGED <<bom, ledger, faults, conv, nextItemId>>
    /\ UNCHANGED OrderTables
    /\ UNCHANGED Catalog

\* POST /:id/add : the 'ADD' "Stock added" row in try/catch, then 200.
AddLog(a) ==
    /\ adm[a].pc = "addLog"
    /\ ledger' = InsertLedger(LedgerRow(adm[a].item, "ADD", adm[a].quantity, adm[a].unit, 0))
    /\ adm' = [adm EXCEPT ![a] = AdminResponse(200, "")]
    /\ UNCHANGED <<inv, bom, faults, conv, nextItemId, adminOps>>
    /\ UNCHANGED OrderTables
    /\ UNCHANGED Catalog

\* POST /:id/remove : validation, SELECT quantity, the stock check.
RemoveStock(a, i, quantity) ==
    /\ Receive(a)
    /\ adm' = [adm EXCEPT ![a] =
          IF quantity <= 0 THEN AdminResponse(400, "Quantity must be greater than 0")
          ELSE IF ~inv[i].present THEN AdminResponse(404, "Inventory item not found")
          ELSE IF inv[i].quantity < quantity THEN AdminResponse(400, "Insufficient stock")
          ELSE [IdleAdmin EXCEPT !.pc = "removeUpdate", !.item = i, !.quantity = quantity]]
    /\ UNCHANGED <<inv, bom, ledger, faults, conv, nextItemId>>
    /\ UNCHANGED OrderTables
    /\ UNCHANGED Catalog

\* POST /:id/remove : UPDATE ... SET quantity = quantity - $1 ; when the item is
\* gone rows[0].unit throws inside the try/catch of the ledger insert and the
\* route answers 200 with an empty body.
RemoveUpdate(a) ==
    /\ adm[a].pc = "removeUpdate"
    /\ LET i == adm[a].item
       IN  /\ lock[i] = NoClient
           /\ IF inv[i].present
              THEN /\ inv' = [inv EXCEPT ![i].quantity = RoundScale3(@ - adm[a].quantity)]
                   /\ adm' = [adm EXCEPT ![a] = [@ EXCEPT !.pc = "removeLog",
                                                          !.unit = inv[i].unit]]
              ELSE /\ adm' = [adm EXCEPT ![a] = AdminResponse(200, "")]
                   /\ UNCHANGED inv
    /\ UNCHANGED <<bom, ledger, faults, conv, nextItemId, adminOps>>
    /\ UNCHANGED OrderTables
    /\ UNCHANGED Catalog

\* POST /:id/remove : the 'REMOVE' "Stock removed" row in try/catch, then 200.
RemoveLog(a) ==
    /\ adm[a].pc = "removeLog"
    /\ ledger' = InsertLedger(LedgerRow(adm[a].item, "REMOVE", adm[a].quantity, adm[a].unit, 0))
    /\ adm' = [adm EXCEPT ![a] = AdminResponse(200, "")]
    /\ UNCHANGED <<inv, bom, faults, conv, nextItemId, adminOps>>
    /\ UNCHANGED OrderTables
    /\ UNCHANGED Catalog

\* A statement of an inventory request fails in the storage layer: the ledger
\* insert's error is swallowed by its try/catch, any other goes to the catch
\* block of the route (500).
AdminFault(a) ==
    /\ faults < MaxFaults
    /\ faults' = faults + 1
    /\ \/ /\ adm[a].pc \in {"createLog", "editLog", "addLog", "removeLog"}
          /\ adm' = [adm EXCEPT ![a] =
                        AdminResponse(IF adm[a].pc = "createLog" THEN 201 ELSE 200, "")]
       \/ /\ adm[a].pc \in {"editUpdate", "removeUpdate"}
          /\ adm' = [adm EXCEPT ![a] = AdminResponse(500, "storage")]
    /\ UNCHANGED <<inv, bom, ledger, conv, nextItemId, adminOps>>
    /\ UNCHANGED OrderTables
    /\ UNCHANGED Catalog

AdminStep(a) ==
    \/ \E body \in CreateBodies : CreateItem(a, body)
    \/ LogInitial(a)
    \/ \E i \in Items, body \in EditBodies : EditItem(a, i, body)
    \/ EditUpdate(a)
    \/ EditLog(a)
    \/ \E i \in Items : DeleteItem(a, i)
    \/ \E i \in Items, q \in StockQtys : AddStock(a, i, q)
    \/ AddLog(a)
    \/ \E i \in Items, q \in StockQtys : RemoveStock(a, i, q)
    \/ RemoveUpdate(a)
    \/ RemoveLog(a)
    \/ AdminFault(a)

NextInventory == \E a \in Admins : AdminStep(a)

\* One weighed item in stock and used by product 1; the second item id is free.
InitInventory ==
    /\ inv = (1 :> [present |-> TRUE, quantity |-> InitStock, unit |-> "grams"])
             @@ (2 :> NoItem)
    /\ ledger = << LedgerRow(1, "ADD", InitStock, "grams", 0) >>
    /\ bom = { [id |-> 1, product_id |-> 1, inventory_item_id |-> 1,
                quantity_required |-> 2 * One, unit |-> "grams"] }
    /\ orders = {}
    /\ order_items = <<>>
    /\ lock = [i \in Items |-> NoClient]
    /\ pend = [i \in Items |-> 0]
    /\ tx = [c \in Clients |-> IdleTx]
    /\ nextOrderId = 1
    /\ faults = 0
    /\ conv = NoConv
    /\ adm = [a \in Admins |-> IdleAdmin]
    /\ nextItemId = 2
    /\ adminOps = 0
    /\ CatalogAtRest

SpecInventory == InitInventory /\ [][NextInventory]_vars

\* ------------------------- BOM, recipes and products (inventory.js, part_003, part_005)
CatFree(a) == cat[a].pc \in {"idle", "done"}

\* A request is received by a free session.
CatReceive(a) ==
    /\ CatFree(a)
    /\ catOps < MaxCatalogOps
    /\ catOps' = catOps + 1

\* res.status(status).json({ message }) for request r.
CatResponse(r, status, message) ==
    [r EXCEPT !.pc = "done", !.status = status, !.message = message]

\* What the BOM, recipe and product routes leave alone.
OutsideCatalog == <<inv, ledger, faults, conv, adm, nextItemId, adminOps, alerts>>

\* Request bodies: inventory_item_id 0 stands for a missing id.
BomBodies ==
    [inventory_item_id : {0} \cup Items, quantity_required : {0, One}, unit : {NoUnit, "cups"}]
BomEdits == [quantity_required : {0, 2 * One}, unit : {NoUnit, "cups"}]
BomIds == 1..3
Ingredient == [inventory_item_id : Items, quantity : {0, One, 2 * One}]
Recipes == UNION {[1..n -> Ingredient] : n \in 0..2}

\* UNIQUE(product_id, inventory_item_id)
MappedNever(product, item) == FALSE
Mapped(product, item) ==
    \E b \in bom : b.product_id = product /\ b.inventory_item_id = item

\* POST /product/:productId/bom : validation, then SELECT id FROM products
AddBom(a, product, body) ==
    /\ CatReceive(a)
    /\ LET r == [IdleCat EXCEPT !.op = "addBom", !.product = product,
                                !.item = body.inventory_item_id,
                                !.quantity = body.quantity_required, !.unit = body.unit]
       IN  cat' = [cat EXCEPT ![a] =
               IF body.inventory_item_id = 0 \/ body.quantity_required <= 0
               THEN CatResponse(r, 400, "Inventory item ID and positive quantity required are required")
               ELSE IF product \notin products
               THEN CatResponse(r, 404, "Product not found")
               ELSE [r EXCEPT !.pc = "bomItemCheck"]]
    /\ UNCHANGED <<bom, products, ingredients, nextBomId>>
    /\ UNCHANGED OutsideCatalog
    /\ UNCHANGED OrderTables

\* POST /product/:productId/bom : SELECT id FROM inventory_items
BomItemCheck(a) ==
    /\ cat[a].pc = "bomItemCheck"
    /\ cat' = [cat EXCEPT ![a] =
                  IF ~inv[cat[a].item].present
                  THEN CatResponse(cat[a], 404, "Inventory item not found")
                  ELSE [cat[a] EXCEPT !.pc = "bomInsert"]]
    /\ UNCHANGED <<bom, products, ingredients, nextBomId, catOps>>
    /\ UNCHANGED OutsideCatalog
    /\ UNCHANGED OrderTables

\* POST /product/:productId/bom : INSERT INTO product_inventory ... RETURNING * ;
\* the id is drawn from the sequence before the constraints are checked.
BomInsert(a) ==
    /\ cat[a].pc = "bomInsert"
    /\ nextBomId' = nextBomId + 1
    /\ LET r == cat[a]
       IN  IF r.product \notin products \/ ~inv[r.item].present
           THEN /\ cat' = [cat EXCEPT ![a] = CatResponse(r, 500, "Failed to create BOM entry")]
                /\ UNCHANGED bom
           ELSE IF Mapped(r.product, r.item)
           THEN /\ cat' = [cat EXCEPT ![a] =
                    CatResponse(r, 400, "This inventory item is already mapped to this product")]
                /\ UNCHANGED bom
           ELSE /\ bom' = bom \cup
                     { [id |-> nextBomId, product_id |-> r.product, inventory_item_id |-> r.item,
                        quantity_required |-> RoundScale3(r.quantity),
                        unit |-> IF r.unit = NoUnit THEN "grams" ELSE r.unit] }
                /\ cat' = [cat EXCEPT ![a] = CatResponse(r, 201, "")]
    /\ UNCHANGED <<products, ingredients, catOps>>
    /\ UNCHANGED OutsideCatalog
    /\ UNCHANGED OrderTables

\* PUT /bom/:id : validation, then UPDATE product_inventory SET quantity_required = $1,
\* unit = COALESCE($2, unit) WHERE id = $3
UpdateBom(a, id, body) ==
    /\ CatReceive(a)
    /\ LET r == [IdleCat EXCEPT !.op = "updateBom", !.id = id,
                                !.quantity = body.quantity_required, !.unit = body.unit]
       IN  IF body.quantity_required <= 0
           THEN /\ cat' = [cat EXCEPT ![a] = CatResponse(r, 400, "Positive quantity required")]
                /\ UNCHANGED bom
           ELSE IF \A b \in bom : b.id # id
           THEN /\ cat' = [cat EXCEPT ![a] = CatResponse(r, 404, "BOM entry not found")]
                /\ UNCHANGED bom
           ELSE /\ bom' = { IF b.id = id
                            THEN [b EXCEPT !.quantity_required = RoundScale3(body.quantity_required),
                                           !.unit = IF body.unit = NoUnit THEN @ ELSE body.unit]
                            ELSE b : b \in bom }
                /\ cat' = [cat EXCEPT ![a] = CatResponse(r, 200, "")]
    /\ UNCHANGED <<products, ingredients, nextBomId>>
    /\ UNCHANGED OutsideCatalog
    /\ UNCHANGED OrderTables

\* DELETE /bom/:id
DeleteBom(a, id) ==
    /\ CatReceive(a)
    /\ LET r == [IdleCat EXCEPT !.op = "deleteBom", !.id = id]
       IN  IF \A b \in bom : b.id # id
           THEN /\ cat' = [cat EXCEPT ![a] = CatResponse(r, 404, "BOM entry not found")]
                /\ UNCHANGED bom
           ELSE /\ bom' = {b \in bom : b.id # id}
                /\ cat' = [cat EXCEPT ![a] = CatResponse(r, 200, "BOM entry deleted successfully")]
    /\ UNCHANGED <<products, ingredients, nextBomId>>
    /\ UNCHANGED OutsideCatalog
    /\ UNCHANGED OrderTables

\* DELETE /products/:id : order_items rows hold the product (no ON DELETE rule),
\* product_inventory rows go with it (ON DELETE CASCADE).
DeleteProduct(a, product) ==
    /\ CatReceive(a)
    /\ LET r == [IdleCat EXCEPT !.op = "deleteProduct", !.product = product]
       IN  IF product \notin products
           THEN /\ cat' = [cat EXCEPT ![a] = CatResponse(r, 404, "Product not found")]
                /\ UNCHANGED <<products, bom>>
           ELSE IF \E k \in 1..Len(order_items) : order_items[k].product_id = product
           THEN /\ cat' = [cat EXCEPT ![a] = CatResponse(r, 500, "Failed to delete product")]
                /\ UNCHANGED <<products, bom>>
           ELSE /\ products' = products \ {product}
                /\ bom' = {b \in bom : b.product_id # product}
                /\ cat' = [cat EXCEPT ![a] = CatResponse(r, 200, "Product deleted successfully")]
    /\ UNCHANGED <<ingredients, nextBomId>>
    /\ UNCHANGED OutsideCatalog
    /\ UNCHANGED OrderTables

\* POST /products/:productId/ingredients : the Array check, pool.connect(), BEGIN.
\* The transaction keeps in del the committed rows it deleted (and holds locked)
\* and in ins the rows it inserted; both take effect at COMMIT.
SetRecipe(a, product, isArray, list) ==
    /\ CatReceive(a)
    /\ LET r == [IdleCat EXCEPT !.op = "setRecipe", !.product = product, !.list = list]
       IN  cat' = [cat EXCEPT ![a] =
               IF ~isArray THEN CatResponse(r, 400, "Ingredients must be an array")
               ELSE [r EXCEPT !.pc = "recipeDelete"]]
    /\ UNCHANGED <<bom, products, ingredients, nextBomId>>
    /\ UNCHANGED OutsideCatalog
    /\ UNCHANGED OrderTables

\* The row is deleted (and locked) by the open transaction of another session.
LockedByOther(a, row) == \E b \in Admins \ {a} : row \in cat[b].del

\* Where the recipe route goes after the DELETE, and after each ingredient.
AfterIngredient(r) ==
    IF r.k < Len(r.list) THEN [r EXCEPT !.pc = "recipeInsert", !.k = r.k + 1]
    ELSE [r EXCEPT !.pc = "recipeCommit"]

\* DELETE FROM product_ingredients WHERE product_id = $1 : the rows committed at
\* the start of the statement; it waits when another transaction holds one.
RecipeDelete(a) ==
    /\ cat[a].pc = "recipeDelete"
    /\ LET target == {x \in ingredients : x.product_id = cat[a].product}
       IN  cat' = [cat EXCEPT ![a] =
               IF \E row \in target : LockedByOther(a, row)
               THEN [@ EXCEPT !.pc = "recipeDeleteWait", !.snap = target]
               ELSE AfterIngredient([@ EXCEPT !.del = target])]
    /\ UNCHANGED <<bom, products, ingredients, nextBomId, catOps>>
    /\ UNCHANGED OutsideCatalog
    /\ UNCHANGED OrderTables

\* The DELETE goes on when the rows are free: it deletes the rows of its
\* snapshot that the other transaction left (READ COMMITTED).
RecipeDeleteResume(a) ==
    /\ cat[a].pc = "recipeDeleteWait"
    /\ \A row \in cat[a].snap : ~LockedByOther(a, row)
    /\ cat' = [cat EXCEPT ![a] = AfterIngredient([@ EXCEPT !.del = cat[a].snap, !.snap = {}])]
    /\ UNCHANGED <<bom, products, ingredients, nextBomId, catOps>>
    /\ UNCHANGED OutsideCatalog
    /\ UNCHANGED OrderTables

\* The current ingredient of the insert loop and what its INSERT waits for:
\* the sessions whose open transaction inserted the same (product, item) or
\* holds the committed row of that pair.
CurIngredient(r) == r.list[r.k]
Inserts(r) == CurIngredient(r).inventory_item_id # 0 /\ CurIngredient(r).quantity > 0
SamePair(r, x) ==
    x.product_id = r.product /\ x.inventory_item_id = CurIngredient(r).inventory_item_id
Conflicting(r) == {x \in ingredients \ r.del : SamePair(r, x)}
RecipeWaitsFor(a) ==
    LET r == cat[a]
    IN  IF r.pc = "recipeDeleteWait"
        THEN {b \in Admins \ {a} : r.snap \cap cat[b].del # {}}
        ELSE IF r.pc = "recipeInsert" /\ Inserts(r) /\ ~\E x \in r.ins : SamePair(r, x)
        THEN {b \in Admins \ {a} : \/ \E x \in cat[b].ins : SamePair(r, x)
                                    \/ Conflicting(r) \cap cat[b].del # {}}
        ELSE {}

\* The insert loop of the recipe route: INSERT ... ON CONFLICT (product_id,
\* inventory_item_id) DO UPDATE SET quantity = $3, for the ingredients with an
\* id and a positive quantity.
RECURSIVE InsertIngredients(_, _, _)
InsertIngredients(rows, product, list) ==
    IF list = <<>> THEN rows
    ELSE LET ing == Head(list)
         IN  InsertIngredients(
                 IF ing.inventory_item_id # 0 /\ ing.quantity > 0
                 THEN {r \in rows : ~(r.product_id = product
                                       /\ r.inventory_item_id = ing.inventory_item_id)}
                      \cup {[product_id |-> product, inventory_item_id |-> ing.inventory_item_id,
                             quantity |-> ing.quantity]}
                 ELSE rows,
                 product, Tail(list))

\* One turn of the insert loop.
RecipeInsert(a) ==
    /\ cat[a].pc = "recipeInsert"
    /\ RecipeWaitsFor(a) = {}
    /\ LET r == cat[a]
       IN  cat' = [cat EXCEPT ![a] =
               AfterIngredient(
                   IF Inserts(r)
                   THEN [r EXCEPT !.del = @ \cup Conflicting(r),
                                  !.ins = InsertIngredients(@, r.product, <<CurIngredient(r)>>)]
                   ELSE r)]
    /\ UNCHANGED <<bom, products, ingredients, nextBomId, catOps>>
    /\ UNCHANGED OutsideCatalog
    /\ UNCHANGED OrderTables

\* The end of the transaction of session a, as the other sessions see it: the
\* rows it deleted are gone from the snapshot of a waiting DELETE.
RecipeEnd(a, status, message, gone) ==
    [b \in Admins |->
        IF b = a
        THEN CatResponse([cat[a] EXCEPT !.k = 0, !.snap = {}, !.del = {}, !.ins = {}],
                         status, message)
        ELSE [cat[b] EXCEPT !.snap = @ \ gone]]

\* COMMIT, then 200.
RecipeCommit(a) ==
    /\ cat[a].pc = "recipeCommit"
    /\ ingredients' = (ingredients \ cat[a].del) \cup cat[a].ins
    /\ cat' = RecipeEnd(a, 200, "Product ingredients updated successfully", cat[a].del)
    /\ UNCHANGED <<bom, products, nextBomId, catOps>>
    /\ UNCHANGED OutsideCatalog
    /\ UNCHANGED OrderTables

\* catch (err): ROLLBACK, 500.
RecipeRollback(a) ==
    /\ cat' = RecipeEnd(a, 500, "Failed to update product ingredients", {})
    /\ UNCHANGED <<bom, products, ingredients, nextBomId, catOps>>
    /\ UNCHANGED <<inv, ledger, conv, adm, nextItemId, adminOps, alerts>>
    /\ UNCHANGED OrderTables

\* A statement of the recipe transaction fails in the storage layer.
RecipeFault(a) ==
    /\ cat[a].pc \in {"recipeDelete", "recipeDeleteWait", "recipeInsert", "recipeCommit"}
    /\ cat[a].pc = "recipeInsert" => Inserts(cat[a])
    /\ faults < MaxFaults
    /\ faults' = faults + 1
    /\ RecipeRollback(a)

\* PostgreSQL's deadlock detector fails the statement of a transaction that
\* waits in a cycle.
RECURSIVE RecipeWaitChain(_, _)
RecipeWaitChain(S, n) ==
    IF n = 0 THEN S
    ELSE RecipeWaitChain(S \cup UNION {RecipeWaitsFor(b) : b \in S}, n - 1)

RecipeDeadlock(a) ==
    /\ a \in RecipeWaitChain(RecipeWaitsFor(a), NumAdmins)
    /\ UNCHANGED faults
    /\ RecipeRollback(a)

\* GET /products/:productId/ingredients : product_ingredients JOIN inventory_items,
\* no ORDER BY.
GetIngredients(a, product) ==
    /\ CatReceive(a)
    /\ \E rs \in Orderings({x \in ingredients :
                              x.product_id = product /\ inv[x.inventory_item_id].present}) :
          cat' = [cat EXCEPT ![a] =
                    CatResponse([IdleCat EXCEPT !.op = "getIngredients", !.product = product,
                                                !.rows = rs], 200, "")]
    /\ UNCHANGED <<bom, products, ingredients, nextBomId>>
    /\ UNCHANGED OutsideCatalog
    /\ UNCHANGED OrderTables

CatalogStep(a) ==
    \/ \E product \in Products, body \in BomBodies : AddBom(a, product, body)
    \/ BomItemCheck(a)
    \/ BomInsert(a)
    \/ \E id \in BomIds, body \in BomEdits : UpdateBom(a, id, body)
    \/ \E id \in BomIds : DeleteBom(a, id)
    \/ \E product \in Products : DeleteProduct(a, product)
    \/ \E i \in Items : DeleteItem(a, i)

NextCatalog == \E a \in Admins : CatalogStep(a)

\* Two items in stock, both used by product 1 (BOM and recipe); product 2 has no
\* BOM entry and was sold once.
InitCatalog ==
    /\ inv = (1 :> [present |-> TRUE, quantity |-> InitStock, unit |-> "grams"])
             @@ (2 :> [present |-> TRUE, quantity |-> One, unit |-> "pieces"])
    /\ ledger = << LedgerRow(1, "ADD", InitStock, "grams", 0),
                   LedgerRow(2, "ADD", One, "pieces", 0) >>
    /\ bom = { [id |-> 1, product_id |-> 1, inventory_item_id |-> 1,
                quantity_required |-> 2 * One, unit |-> "grams"],
               [id |-> 2, product_id |-> 1, inventory_item_id |-> 2,
                quantity_required |-> One, unit |-> "pieces"] }
    /\ orders = {1}
    /\ order_items = << [order_id |-> 1, product_id |-> 2, qty |-> 1] >>
    /\ lock = [i \in Items |-> NoClient]
    /\ pend = [i \in Items |-> 0]
    /\ tx = [c \in Clients |-> IdleTx]
    /\ nextOrderId = 2
    /\ faults = 0
    /\ conv = NoConv
    /\ adm = [a \in Admins |-> IdleAdmin]
    /\ nextItemId = Cardinality(Items) + 1
    /\ adminOps = 0
    /\ products = Products
    /\ ingredients = { [product_id |-> 1, inventory_item_id |-> 1, quantity |-> 2 * One],
                       [product_id |-> 1, inventory_item_id |-> 2, quantity |-> One] }
    /\ cat = [a \in Admins |-> IdleCat]
    /\ nextBomId = Cardinality(bom) + 1
    /\ catOps = 0
    /\ alerts = NoAlerts

SpecCatalog == InitCatalog /\ [][NextCatalog]_vars

\* The recipe routes alone, on the same tables.
RecipeStep(a) ==
    \/ \E product \in Products, list \in Recipes : SetRecipe(a, product, TRUE, list)
    \/ \E product \in Products : SetRecipe(a, product, FALSE, <<>>)
    \/ RecipeDelete(a)
    \/ RecipeDeleteResume(a)
    \/ RecipeInsert(a)
    \/ RecipeCommit(a)
    \/ RecipeFault(a)
    \/ RecipeDeadlock(a)
    \/ \E product \in Products : GetIngredients(a, product)

NextRecipe == \E a \in Admins : RecipeStep(a)

SpecRecipe == InitCatalog /\ [][NextRecipe]_vars

\* ------------------------------------------- JavaScript Numbers (IEEE-754 binary64)
\* A natural number of any size is a sequence of limbs, least significant first,
\* with no zero limb at the top; zero is the empty sequence.
Limb == 2^15
LimbBits == CHOOSE n \in 1..30 : 2^n = Limb

\* Bits of the significand of a double.
SignificandBits == 53

LimbAt(a, i) == IF i >= 1 /\ i <= Len(a) THEN a[i] ELSE 0

Trim(a) ==
    LET set == {i \in 1..Len(a) : a[i] # 0}
    IN  IF set = {} THEN <<>>
        ELSE SubSeq(a, 1, CHOOSE i \in set : \A j \in set : j <= i)

\* An integer below 2^31.
BigOf(n) == Trim(<<n % Limb, (n \div Limb) % Limb, n \div (Limb * Limb)>>)

\* a + b: limb i takes a carry when a limb below it overflows and every limb
\* between is full.
Add(a, b) ==
    LET len == Max(Len(a), Len(b)) + 1
        x == [i \in 1..len |-> LimbAt(a, i) + LimbAt(b, i)]
        carry == [i \in 1..len |->
                    IF \E j \in 1..(i - 1) :
                          x[j] >= Limb /\ \A k \in (j + 1)..(i - 1) : x[k] = Limb - 1
                    THEN 1 ELSE 0]
    IN  Trim([i \in 1..len |-> (x[i] + carry[i]) % Limb])

\* a - b, for a >= b.
Sub(a, b) ==
    LET borrow == [i \in 1..Len(a) |->
                     IF \E j \in 1..(i - 1) :
                           a[j] < LimbAt(b, j) /\ \A k \in (j + 1)..(i - 1) : a[k] = LimbAt(b, k)
                     THEN 1 ELSE 0]
    IN  Trim([i \in 1..Len(a) |-> (a[i] - LimbAt(b, i) - borrow[i] + Limb) % Limb])

\* -1, 0 or 1 as a is less than, equal to or greater than b.
Cmp(a, b) ==
    IF Len(a) < Len(b) THEN 0 - 1
    ELSE IF Len(a) > Len(b) THEN 1
    ELSE LET set == {i \in 1..Len(a) : a[i] # b[i]}
             top == CHOOSE i \in set : \A j \in set : j <= i
         IN  IF set = {} THEN 0 ELSE IF a[top] < b[top] THEN 0 - 1 ELSE 1

\* a * k, for a limb k.
Times(a, k) ==
    Add([i \in 1..Len(a) |-> (a[i] * k) % Limb],
        <<0>> \o [i \in 1..Len(a) |-> (a[i] * k) \div Limb])

\* a * b[j] * Limb^(j - 1)
Row(a, b, j) ==
    IF j > Len(b) THEN <<>> ELSE [i \in 1..(j - 1) |-> 0] \o Times(a, b[j])

\* a * b, for b of at most four limbs (a significand has four).
Mul(a, b) == Add(Add(Row(a, b, 1), Row(a, b, 2)), Add(Row(a, b, 3), Row(a, b, 4)))

\* a * 2^n
ShiftLeft(a, n) ==
    IF a = <<>> THEN a
    ELSE [i \in 1..(n \div LimbBits) |-> 0] \o Times(a, 2^(n % LimbBits))

\* a \div 2^n
ShiftRight(a, n) ==
    LET b == SubSeq(a, (n \div LimbBits) + 1, Len(a))
        k == 2^(n % LimbBits)
    IN  Trim([i \in 1..Len(b) |->
                (b[i] \div k) + (IF i < Len(b) THEN (b[i + 1] % k) * (Limb \div k) ELSE 0)])

BitLen(a) ==
    IF a = <<>> THEN 0
    ELSE LimbBits * (Len(a) - 1)
            + (CHOOSE n \in 1..LimbBits : 2^(n - 1) <= a[Len(a)] /\ a[Len(a)] < 2^n)

IsOdd(a) == a # <<>> /\ a[1] % 2 = 1

\* The digit g with g * d <= r < (g + 1) * d, for r < d * Limb and the top limb
\* of d at least Limb / 2: the quotient of the top limbs is g, g + 1 or g + 2.
Digit(r, d) ==
    LET top == (LimbAt(r, Len(d) + 1) * Limb + LimbAt(r, Len(d))) \div d[Len(d)]
        g == IF top > Limb - 1 THEN Limb - 1 ELSE top
    IN  IF Cmp(Times(d, g), r) <= 0 THEN g
        ELSE IF Cmp(Times(d, g - 1), r) <= 0 THEN g - 1
        ELSE g - 2

\* One step of long division: given [q, r] for the limbs above, bring down limb.
DivLimb(above, limb, d) ==
    LET r2 == Trim(<<limb>> \o above.r)
        g == Digit(r2, d)
    IN  [q |-> IF above.q = <<>> /\ g = 0 THEN <<>> ELSE <<g>> \o above.q,
         r |-> Sub(r2, Times(d, g))]

\* Long division limb by limb, limbs i and above of n divided by d:
\* [q, r] with q * d + r the number those limbs make and r < d. Fewer limbs
\* than d has make a number below d.
RECURSIVE DivFrom(_, _, _)
DivFrom(n, d, i) ==
    IF i > Len(n) - Len(d) + 1 THEN [q |-> <<>>, r |-> SubSeq(n, i, Len(n))]
    ELSE DivLimb(DivFrom(n, d, i + 1), n[i], d)

\* [q, r] with n = q * d + r and r < d, for d > 0; both are first scaled to
\* bring the top limb of d to Limb / 2 or more.
DivMod(n, d) ==
    LET s == (LimbBits - (BitLen(d) % LimbBits)) % LimbBits
        scaled == DivFrom(ShiftLeft(n, s), ShiftLeft(d, s), 1)
    IN  [q |-> scaled.q, r |-> ShiftRight(scaled.r, s)]

\* A positive double is [m, e] with 2^52 <= m < 2^53: the number m * 2^e.
\* RoundNearest is the double nearest to n * 2^e (to a value just above it when
\* sticky), ties to the even significand.
RoundNearest(n, e, sticky) ==
    LET len == BitLen(n)
        s == len - SignificandBits
    IN  IF s <= 0
        THEN [m |-> ShiftLeft(n, 0 - s), e |-> e + s]
        ELSE LET q == ShiftRight(n, s)
                 r == Sub(n, ShiftLeft(q, s))
                 c == Cmp(r, ShiftLeft(<<1>>, s - 1))
                 up == c > 0 \/ (c = 0 /\ (sticky \/ IsOdd(q)))
                 m == IF up THEN Add(q, <<1>>) ELSE q
             IN  IF BitLen(m) > SignificandBits
                 THEN [m |-> ShiftRight(m, 1), e |-> e + s + 1]
                 ELSE [m |-> m, e |-> e + s]

Zero == [m |-> <<>>, e |-> 0]
Infinity == [m |-> <<>>, e |-> 1]

\* The Number an integer literal denotes.
NumberOf(n) == IF n = 0 THEN Zero ELSE RoundNearest(BigOf(n), 0, FALSE)

\* a * b
NumMul(a, b) ==
    IF a.m = <<>> \/ b.m = <<>> THEN (IF a = Infinity \/ b = Infinity THEN Infinity ELSE Zero)
    ELSE RoundNearest(Mul(a.m, b.m), a.e + b.e, FALSE)

\* a / b (0 / 0, which is NaN, is not told apart from x / 0)
NumDiv(a, b) ==
    IF b.m = <<>> THEN Infinity
    ELSE IF a.m = <<>> THEN Zero
    ELSE LET d == DivMod(ShiftLeft(a.m, SignificandBits + 2), b.m)
         IN  RoundNearest(d.q, a.e - b.e - (SignificandBits + 2), d.r # <<>>)

\* The Number a decimal with three decimals denotes (parseFloat of a
\* NUMERIC(10,3) value, a literal such as 0.001): the double nearest to it.
Decimal3(thousandths) == NumDiv(NumberOf(thousandths), NumberOf(Thousand))

\* The inline unit conversion of the order route, on Numbers.
ConvertNumberOneWay(qty, requiredUnit, inventoryUnit) ==
    IF requiredUnit # inventoryUnit
    THEN IF requiredUnit = "grams" /\ inventoryUnit = "kilograms"
         THEN NumDiv(qty, NumberOf(Thousand))
         ELSE IF requiredUnit = "ml" /\ inventoryUnit = "liters"
         THEN NumDiv(qty, NumberOf(Thousand))
         ELSE qty
    ELSE qty
ConvertNumber(qty, requiredUnit, inventoryUnit) ==
    IF requiredUnit # inventoryUnit
    THEN IF requiredUnit = "grams" /\ inventoryUnit = "kilograms"
         THEN NumDiv(qty, NumberOf(Thousand))
         ELSE IF requiredUnit = "kilograms" /\ inventoryUnit = "grams"
         THEN NumMul(qty, NumberOf(Thousand))
         ELSE IF requiredUnit = "ml" /\ inventoryUnit = "liters"
         THEN NumDiv(qty, NumberOf(Thousand))
         ELSE IF requiredUnit = "liters" /\ inventoryUnit = "ml"
         THEN NumMul(qty, NumberOf(Thousand))
         ELSE qty
    ELSE qty

\* UNITS of the inventory page: conversionFactor of each unit.
ConversionFactor(unit) ==
    CASE unit = "grams" -> NumberOf(1)
      [] unit = "kilograms" -> NumberOf(Thousand)
      [] unit = "pieces" -> NumberOf(1)
      [] unit = "liters" -> NumberOf(1)
      [] unit = "ml" -> Decimal3(1)

\* convertQuantity of the inventory page.
convertQuantity(quantity, fromUnit, toUnit) ==
    IF fromUnit \notin Units \/ toUnit \notin Units THEN quantity
    ELSE NumDiv(NumMul(quantity, ConversionFactor(fromUnit)), ConversionFactor(toUnit))

\* ------------------------------------------------------ the conversions alone
\* The inputs: a BOM quantity with up to one decimal, a quantity sold, and any
\* pair of units.
ConvReqs == {One \div 2, One, 2 * One}
ConvQtys == 1..(MaxQtySold + 1)

ConvInputs ==
    [op : {"input"}, quantity_required : ConvReqs, qty : ConvQtys,
     unit : Units, inventory_unit : Units]

\* The inputs of a round trip: which conversion (the order route's inline one
\* or the inventory page's convertQuantity), a quantity with three decimals,
\* and the units A and B.
NumberInputs ==
    [op : {"number"}, impl : {"orderRoute", "inventoryPage"},
     thousandths : 1..MaxThousandths, unit : Units, inventory_unit : Units]

InitConv ==
    /\ conv \in ConvInputs \cup NumberInputs
    /\ inv = [i \in Items |-> NoItem]
    /\ bom = {}
    /\ orders = {}
    /\ order_items = <<>>
    /\ ledger = <<>>
    /\ lock = [i \in Items |-> NoClient]
    /\ pend = [i \in Items |-> 0]
    /\ tx = [c \in Clients |-> IdleTx]
    /\ nextOrderId = 1
    /\ faults = 0
    /\ adm = [a \in Admins |-> IdleAdmin]
    /\ nextItemId = 1
    /\ adminOps = 0
    /\ CatalogAtRest

\* The order route's computation of qtyNeeded for one BOM row and one line.
ApplyQtyNeeded ==
    /\ conv.op = "input"
    /\ conv' = [op |-> "qtyNeeded", quantity_required |-> conv.quantity_required,
                qty |-> conv.qty, unit |-> conv.unit, inventory_unit |-> conv.inventory_unit,
                out |-> QtyNeeded(conv, conv.qty)]
    /\ UNCHANGED <<inv, bom, orders, order_items, ledger, lock, pend, tx, nextOrderId, faults,
                   adm, nextItemId, adminOps>>
    /\ UNCHANGED Catalog

\* The conversion named by impl.
Convert(impl, x, fromUnit, toUnit) ==
    IF impl = "orderRoute" THEN ConvertNumber(x, fromUnit, toUnit)
    ELSE convertQuantity(x, fromUnit, toUnit)

\* convert(x, A, B)
ConvertThere ==
    /\ conv.op = "number"
    /\ conv' = [op |-> "there", impl |-> conv.impl, thousandths |-> conv.thousandths,
                unit |-> conv.unit, inventory_unit |-> conv.inventory_unit,
                x |-> Decimal3(conv.thousandths),
                there |-> Convert(conv.impl, Decimal3(conv.thousandths),
                                  conv.unit, conv.inventory_unit)]
    /\ UNCHANGED <<inv, bom, orders, order_items, ledger, lock, pend, tx, nextOrderId, faults,
                   adm, nextItemId, adminOps>>
    /\ UNCHANGED Catalog

\* convert(convert(x, A, B), B, A)
ConvertBack ==
    /\ conv.op = "there"
    /\ conv' = [op |-> "roundTrip", impl |-> conv.impl, thousandths |-> conv.thousandths,
                unit |-> conv.unit, inventory_unit |-> conv.inventory_unit,
                x |-> conv.x, there |-> conv.there,
                back |-> Convert(conv.impl, conv.there, conv.inventory_unit, conv.unit)]
    /\ UNCHANGED <<inv, bom, orders, order_items, ledger, lock, pend, tx, nextOrderId, faults,
                   adm, nextItemId, adminOps>>
    /\ UNCHANGED Catalog

NextConv == ApplyQtyNeeded \/ ConvertThere \/ ConvertBack

SpecConv == InitConv /\ [][NextConv]_vars

\* ------------------------------------ alerts (routes/inventory.js, part_003)

\* The columns of inventory_items the listing and the alert queries read:
\* quantity and low_stock_threshold (current_stock and min_stock in the older
\* router), expire_date (expiry_date) and the "isActive" flag of the older
\* router.  A date is a number of days from CURRENT_DATE; expire_date is the
\* empty set for NULL and {d} for the date d.
AlertQtys == {0, 2 * One, 7 * One}
AlertThresholds == {0, 5 * One}
ExpireDates == {{}} \cup {{d} : d \in {0 - 1, 0, 3, 7, 8}}
AlertRows ==
    [quantity : AlertQtys, low_stock_threshold : AlertThresholds, isActive : BOOLEAN,
     expire_date : ExpireDates]
AlertTables == [Items -> AlertRows]
CURRENT_DATE == 0

\* A timestamp counts half days: midnight of a date, and the time of day of
\* new Date() (midnight or noon).
Midnight(d) == 2 * d
TimesOfDay == {0, 1}

\* GET / : CASE WHEN ... END as status
ListingStatus(row) ==
    IF \E d \in row.expire_date : d < CURRENT_DATE THEN "expired"
    ELSE IF \E d \in row.expire_date : d <= CURRENT_DATE + 3 THEN "expiring_soon"
    ELSE IF row.quantity <= row.low_stock_threshold THEN "low_stock"
    ELSE "normal"

\* WHERE quantity <= low_stock_threshold AND low_stock_threshold > 0
LowStockSummary(table) ==
    {i \in Items : table[i].quantity <= table[i].low_stock_threshold
                   /\ table[i].low_stock_threshold > 0}

\* WHERE expire_date IS NOT NULL AND expire_date > CURRENT_DATE
\*   AND expire_date <= CURRENT_DATE + INTERVAL '7 days'
ExpiringSoonSummary(table) ==
    {i \in Items : \E d \in table[i].expire_date : d > CURRENT_DATE /\ d <= CURRENT_DATE + 7}

\* WHERE expire_date IS NOT NULL AND expire_date < CURRENT_DATE
ExpiredSummary(table) ==
    {i \in Items : \E d \in table[i].expire_date : d < CURRENT_DATE}

\* WHERE "isActive" = true AND current_stock <= min_stock AND current_stock > 0
LowStockAlerts(table) ==
    {i \in Items : /\ table[i].isActive
                   /\ table[i].quantity <= table[i].low_stock_threshold
                   /\ table[i].quantity > 0}

\* WHERE "isActive" = true AND expiry_date IS NOT NULL
\*   AND expiry_date <= $1 AND expiry_date >= $2   [threeDaysFromNow, now]
NearExpiryAlerts(table, now) ==
    {i \in Items : /\ table[i].isActive
                   /\ \E d \in table[i].expire_date :
                          Midnight(d) <= now + Midnight(3) /\ Midnight(d) >= now}

\* WHERE "isActive" = true AND expiry_date IS NOT NULL AND expiry_date < $1   [now]
ExpiredAlerts(table, now) ==
    {i \in Items : table[i].isActive /\ \E d \in table[i].expire_date : Midnight(d) < now}

OutsideAlerts ==
    <<inv, bom, ledger, faults, conv, adm, nextItemId, adminOps,
      products, ingredients, cat, nextBomId, catOps>>

IdleAlerts(table) ==
    [op |-> "idle", table |-> table, now |-> Midnight(CURRENT_DATE), window |-> 0,
     status |-> [i \in Items |-> ""], lowStock |-> {}, expiringSoon |-> {}, expired |-> {}]

\* GET / : res.json(rows), each row with its status
Listing ==
    /\ alerts.op # "none"
    /\ alerts' = [IdleAlerts(alerts.table) EXCEPT
                      !.op = "list",
                      !.status = [i \in Items |-> ListingStatus(alerts.table[i])]]
    /\ UNCHANGED OutsideAlerts
    /\ UNCHANGED OrderTables

\* GET /alerts/summary : res.json({ lowStock, expiringSoon, expired })
AlertsSummary ==
    /\ alerts.op # "none"
    /\ alerts' = [IdleAlerts(alerts.table) EXCEPT
                      !.op = "alerts/summary",
                      !.window = Midnight(7),
                      !.lowStock = LowStockSummary(alerts.table),
                      !.expiringSoon = ExpiringSoonSummary(alerts.table),
                      !.expired = ExpiredSummary(alerts.table)]
    /\ UNCHANGED OutsideAlerts
    /\ UNCHANGED OrderTables

\* GET /alerts : now = new Date(), threeDaysFromNow, the three queries,
\* res.json({ lowStock, nearExpiry, expired })
GetAlerts ==
    /\ alerts.op # "none"
    /\ \E t \in TimesOfDay :
          LET now == Midnight(CURRENT_DATE) + t
          IN  alerts' = [IdleAlerts(alerts.table) EXCEPT
                            !.op = "alerts",
                            !.now = now,
                            !.window = Midnight(3),
                            !.lowStock = LowStockAlerts(alerts.table),
                            !.expiringSoon = NearExpiryAlerts(alerts.table, now),
                            !.expired = ExpiredAlerts(alerts.table, now)]
    /\ UNCHANGED OutsideAlerts
    /\ UNCHANGED OrderTables

NextAlerts == Listing \/ AlertsSummary \/ GetAlerts

InitAlerts ==
    /\ alerts \in {IdleAlerts(table) : table \in AlertTables}
    /\ inv = [i \in Items |-> NoItem]
    /\ bom = {}
    /\ orders = {}
    /\ order_items = <<>>
    /\ ledger = <<>>
    /\ lock = [i \in Items |-> NoClient]
    /\ pend = [i \in Items |-> 0]
    /\ tx = [c \in Clients |-> IdleTx]
    /\ nextOrderId = 1
    /\ faults = 0
    /\ conv = NoConv
    /\ adm = [a \in Admins |-> IdleAdmin]
    /\ nextItemId = 1
    /\ adminOps = 0
    /\ products = Products
    /\ ingredients = {}
    /\ cat = [a \in Admins |-> IdleCat]
    /\ nextBomId = 1
    /\ catOps = 0

SpecAlerts == InitAlerts /\ [][NextAlerts]_vars

\* --------------------------------------- orders with any line quantity

\* item.qty is not validated and order_items.qty is an INT with no CHECK.
AnyQtys == {0 - 1, 0, 1}
AnyRequests == UNION {[1..n -> [product_id : Products, qty : AnyQtys]] : n \in 1..MaxLines}

AnyQtyStep(c) ==
    \/ \E lines \in AnyRequests : PlaceOrder(c, lines)
    \/ InsertOrder(c)
    \/ InsertItems(c)
    \/ SelectBom(c)
    \/ DeductRow(c)
    \/ LogSale(c)
    \/ Commit(c)
    \/ Fault(c)
    \/ DeadlockAbort(c)

NextAnyQty == \E c \in Clients : AnyQtyStep(c)

\* Item 1 is weighed in kilograms and product 1 takes 0.4 grams of it;
\* product 2 takes one piece of item 2.
InitAnyQty ==
    /\ inv = (1 :> [present |-> TRUE, quantity |-> InitStock, unit |-> "kilograms"])
             @@ (2 :> [present |-> TRUE, quantity |-> One, unit |-> "pieces"])
    /\ ledger = << LedgerRow(1, "ADD", InitStock, "kilograms", 0),
                   LedgerRow(2, "ADD", One, "pieces", 0) >>
    /\ bom = { [id |-> 1, product_id |-> 1, inventory_item_id |-> 1,
                quantity_required |-> 4 * (One \div 10), unit |-> "grams"],
               [id |-> 2, product_id |-> 2, inventory_item_id |-> 2,
                quantity_required |-> One, unit |-> "pieces"] }
    /\ orders = {}
    /\ order_items = <<>>
    /\ lock = [i \in Items |-> NoClient]
    /\ pend = [i \in Items |-> 0]
    /\ tx = [c \in Clients |-> IdleTx]
    /\ nextOrderId = 1
    /\ faults = 0
    /\ conv = NoConv
    /\ adm = [a \in Admins |-> IdleAdmin]
    /\ nextItemId = Cardinality(Items) + 1
    /\ adminOps = 0
    /\ CatalogAtRest

SpecAnyQty == InitAnyQty /\ [][NextAnyQty]_vars

\* ------------------------------------------- an order, then the alert summary

\* The inventory_items rows as GET /alerts/summary reads them: the committed
\* quantities, with the thresholds the items were given.
StockTable == [i \in Items |-> [alerts.table[i] EXCEPT !.quantity = inv[i].quantity]]

\* GET /alerts/summary on the committed rows.
SummaryOfStock ==
    /\ alerts.op # "none"
    /\ alerts' = [IdleAlerts(StockTable) EXCEPT
                      !.op = "alerts/summary",
                      !.window = Midnight(7),
                      !.lowStock = LowStockSummary(StockTable),
                      !.expiringSoon = ExpiringSoonSummary(StockTable),
                      !.expired = ExpiredSummary(StockTable)]
    /\ UNCHANGED OutsideAlerts
    /\ UNCHANGED OrderTables

NextEndToEnd == NextOrders \/ SummaryOfStock

\* 150 g of item 1 in stock, product 1 requires 200 g of it per unit; product 2
\* requires one piece of item 2.
StockHeld == 150 * One
RecipeNeeds == 200 * One
InitEndToEnd ==
    /\ inv = (1 :> [present |-> TRUE, quantity |-> StockHeld, unit |-> "grams"])
             @@ (2 :> [present |-> TRUE, quantity |-> One, unit |-> "pieces"])
    /\ ledger = << LedgerRow(1, "ADD", StockHeld, "grams", 0),
                   LedgerRow(2, "ADD", One, "pieces", 0) >>
    /\ bom = { [id |-> 1, product_id |-> 1, inventory_item_id |-> 1,
                quantity_required |-> RecipeNeeds, unit |-> "grams"],
               [id |-> 2, product_id |-> 2, inventory_item_id |-> 2,
                quantity_required |-> One, unit |-> "pieces"] }
    /\ \E th \in [Items -> AlertThresholds] :
          alerts = IdleAlerts([i \in Items |->
                      [quantity |-> inv[i].quantity, low_stock_threshold |-> th[i],
                       isActive |-> TRUE, expire_date |-> {}]])
    /\ orders = {}
    /\ order_items = <<>>
    /\ lock = [i \in Items |-> NoClient]
    /\ pend = [i \in Items |-> 0]
    /\ tx = [c \in Clients |-> IdleTx]
    /\ nextOrderId = 1
    /\ faults = 0
    /\ conv = NoConv
    /\ adm = [a \in Admins |-> IdleAdmin]
    /\ nextItemId = Cardinality(Items) + 1
    /\ adminOps = 0
    /\ products = Products
    /\ ingredients = {}
    /\ cat = [a \in Admins |-> IdleCat]
    /\ nextBomId = Cardinality(bom) + 1
    /\ catOps = 0

SpecEndToEnd == InitEndToEnd /\ [][NextEndToEnd]_vars

\* ------------------------- orders and stock movements, no edits, no failures

\* Item creation, add-stock, remove-stock and order placement together, every
\* statement succeeding: orders of one unit of a product, an item of one piece
\* created, one unit added, two units removed.  The only BOM row is on item 1,
\* so no two orders wait for each other.
LedgerOrderStep(c) ==
    \/ \E product \in Products : PlaceOrder(c, << [product_id |-> product, qty |-> 1] >>)
    \/ InsertOrder(c)
    \/ InsertItems(c)
    \/ SelectBom(c)
    \/ DeductRow(c)
    \/ LogSale(c)
    \/ Commit(c)

LedgerAdminStep(a) ==
    \/ CreateItem(a, [name |-> TRUE, quantity |-> One, unit |-> "pieces"])
    \/ LogInitial(a)
    \/ \E i \in Items : AddStock(a, i, One)
    \/ AddLog(a)
    \/ \E i \in Items : RemoveStock(a, i, 2 * One)
    \/ RemoveUpdate(a)
    \/ RemoveLog(a)

NextLedger ==
    \/ \E c \in Clients : LedgerOrderStep(c)
    \/ \E a \in Admins : LedgerAdminStep(a)

SpecLedger == InitInventory /\ [][NextLedger]_vars

\* ------------------------------------------------- reading the committed tables
RECURSIVE SumQty(_)
SumQty(rows) == IF rows = <<>> THEN 0 ELSE Head(rows).quantity + SumQty(Tail(rows))

RowsOf(item, type) ==
    SelectSeq(ledger, LAMBDA r : r.inventory_item_id = item /\ r.transaction_type = type)

SaleRows(o, item) ==
    SelectSeq(ledger, LAMBDA r : r.inventory_item_id = item /\ r.transaction_type = "SALE"
                                 /\ r.reference_id = o)

Quantities(rows) == [k \in 1..Len(rows) |-> rows[k].quantity]

\* The stock an item was created with, as its "Initial stock" row records it.
InitialStock(item) == Head(RowsOf(item, "ADD")).quantity

LinesOf(o) == SelectSeq(order_items, LAMBDA r : r.order_id = o)

BomFor(product, item) == {b \in bom : b.product_id = product /\ b.inventory_item_id = item}

\* The lines of order o whose product has a BOM entry on the item.
LinesUsing(o, item) == SelectSeq(LinesOf(o), LAMBDA r : BomFor(r.product_id, item) # {})

\* Dimension families of the units (mass, volume, count).
Family(u) ==
    IF u \in {"grams", "kilograms"} THEN "mass"
    ELSE IF u \in {"liters", "ml"} THEN "volume"
    ELSE "count"

Mismatch(bomUnit, stockUnit) == Family(bomUnit) # Family(stockUnit)

Demands(lines, item) ==
    [k \in 1..Len(lines) |->
        LET b == CHOOSE x \in BomFor(lines[k].product_id, item) : TRUE
        IN  ConvertQty(b.quantity_required * lines[k].qty, b.unit, inv[item].unit)]

\* One order executed alone on an item holding q: the quantity left and the SALE
\* amounts it logs.
RECURSIVE Alone(_, _)
Alone(q, demands) ==
    IF demands = <<>> THEN [q |-> q, sales |-> <<>>]
    ELSE LET d == Clamp(Head(demands), q)
             rest == Alone(IF d > 0 THEN Greatest0(q, d) ELSE q, Tail(demands))
         IN  [q |-> rest.q,
              sales |-> IF d > 0 THEN <<RoundScale3(d)>> \o rest.sales ELSE rest.sales]

\* The committed orders executed one after the other in the order perm give the
\* item its present quantity and each order its present SALE amounts.
RECURSIVE SerialFrom(_, _, _)
SerialFrom(q, perm, item) ==
    IF perm = <<>> THEN q = inv[item].quantity
    ELSE LET r == Alone(q, Demands(LinesUsing(Head(perm), item), item))
         IN  /\ r.sales = Quantities(SaleRows(Head(perm), item))
             /\ SerialFrom(r.q, Tail(perm), item)

\* C2: the committed state is the outcome of some serial execution of the
\* committed orders: same final quantities, same SALE ledger amounts.
C2_Serializable ==
    \E perm \in Orderings(orders) :
        \A i \in Items : SerialFrom(InitialStock(i), perm, i)

\* ----------------------------------------------------------------------- C3
\* C3: conservation.  For every item, initial quantity minus the sum of its SALE
\* ledger amounts equals its current quantity.
C3_Conservation ==
    \A i \in Items : InitialStock(i) - SumQty(RowsOf(i, "SALE")) = inv[i].quantity

\* ----------------------------------------------------------------------- C5
\* The UPDATE step of client c on a BOM row whose item holds, at that moment,
\* some stock but less than the row requires.
ShortOfStock(c) ==
    /\ tx[c].pc = "row"
    /\ ~tx[c].aborted
    /\ Visible(c, CurRow(tx[c]).inventory_item_id) > 0
    /\ Visible(c, CurRow(tx[c]).inventory_item_id)
          < QtyNeeded(CurRow(tx[c]), CurLine(tx[c]).qty)

\* C5: clamping.  When an order requires more of an item than is on hand (q < r),
\* the order is not rejected, the item's quantity becomes 0 and the amount
\* handed to the SALE ledger insert is q.
C5_ClampRecordsOnHand ==
    [][\A c \in Clients :
          (ShortOfStock(c) /\ tx'[c] # tx[c] /\ faults' = faults /\ ~Deadlocked(c))
          => /\ tx'[c].pc = "ledger"
             /\ pend'[CurRow(tx[c]).inventory_item_id] = 0
             /\ tx'[c].qtyNeeded = Visible(c, CurRow(tx[c]).inventory_item_id)]_vars

\* ----------------------------------------------------------------------- C6
\* C6: a BOM entry whose unit family differs from the stock-unit family of its
\* item is never deducted from stock: no transaction stands after the UPDATE of
\* such a row.
C6_NoCrossFamilyDeduction ==
    \A c \in Clients :
        tx[c].pc = "ledger" => ~Mismatch(CurRow(tx[c]).unit, CurRow(tx[c]).inventory_unit)

\* ----------------------------------------------------------------------- C7
\* The lines of order o include a product with a mismatched BOM entry on an
\* item other than the given one.
HasMismatchElsewhere(o, item) ==
    \E k \in 1..Len(LinesOf(o)) :
        \E b \in bom : /\ b.product_id = LinesOf(o)[k].product_id
                       /\ b.inventory_item_id # item
                       /\ Mismatch(b.unit, inv[b.inventory_item_id].unit)

C7_OthersApplied ==
    \A o \in orders, i \in Items :
        (HasMismatchElsewhere(o, i) /\ inv[i].quantity > 0)
        => Len(SaleRows(o, i)) = Len(LinesUsing(o, i))

C7_MismatchStep ==
    \A c \in Clients :
        ( /\ tx[c].pc = "row"
          /\ ~tx[c].aborted
          /\ Mismatch(CurRow(tx[c]).unit, CurRow(tx[c]).inventory_unit)
          /\ tx'[c] # tx[c]
          /\ faults' = faults
          /\ ~Deadlocked(c) )
        => tx'[c].pc # "done"

C10_OneSalePerPair ==
    \A o \in orders, i \in Items :
        /\ Len(SaleRows(o, i)) = Len(LinesUsing(o, i))
        /\ \A k \in 1..Len(SaleRows(o, i)) : SaleRows(o, i)[k].unit = inv[i].unit

\* ----------------------------------------------------------------------- C8
\* Size of a unit in the base unit of its family (gram, millilitre, piece).
BaseFactor(u) == IF u \in {"kilograms", "liters"} THEN Thousand ELSE 1

\* C8: the quantity requested from stock is quantityRequired times the quantity
\* sold, expressed in the item's stock unit: times 1000 from kilograms to grams
\* and from liters to ml, divided by 1000 the other way, unchanged for equal
\* units.
C8_RequestedQuantity ==
    (conv.op = "qtyNeeded" /\ ~Mismatch(conv.unit, conv.inventory_unit))
    => LET product == conv.quantity_required * conv.qty
           from == BaseFactor(conv.unit)
           to == BaseFactor(conv.inventory_unit)
       IN  IF from >= to
           THEN conv.out = product * (from \div to)
           ELSE conv.out <= product /\ conv.out * (to \div from) = product

\* Half a kilogram per unit, two units sold, stock kept in grams: 1000 g.
C8_Witness ==
    /\ conv.op = "qtyNeeded"
    /\ conv.unit = "kilograms" /\ conv.inventory_unit = "grams"
    /\ conv.quantity_required = One \div 2 /\ conv.qty = 2
    /\ conv.out = Thousand * One

\* ----------------------------------------------------------------------- C4
\* C4: in every reachable state the quantity of every inventory item is greater
\* than or equal to zero.
C4_QuantityNonNegative ==
    \A i \in Items : inv[i].present => inv[i].quantity >= 0

\* ----------------------------------------------------------------------- C9
\* The doubles a and b are equal or next to each other.
WithinOneUlp(a, b) ==
    \/ a = b
    \/ a.e = b.e /\ (Add(a.m, <<1>>) = b.m \/ Add(b.m, <<1>>) = a.m)
    \/ a.e + 1 = b.e /\ Add(a.m, <<1>>) = ShiftLeft(b.m, 1)
    \/ b.e + 1 = a.e /\ Add(b.m, <<1>>) = ShiftLeft(a.m, 1)

SameFamilyRoundTrip ==
    conv.op = "roundTrip" /\ ~Mismatch(conv.unit, conv.inventory_unit)

\* C9 as stated: for every unit pair (A, B) of one family and every quantity x,
\* convert(convert(x, A, B), B, A) equals x.
C9_RoundTripExact == SameFamilyRoundTrip => conv.back = conv.x

\* C9 as it holds: for every unit pair (A, B) of one family and every quantity x
\* with up to three decimals, convert(convert(x, A, B), B, A) is x or one of the
\* two doubles next to x (the rounding tolerance of double arithmetic), in the
\* order route's conversion and in the inventory page's convertQuantity.
C9_RoundTripWithinUlp == SameFamilyRoundTrip => WithinOneUlp(conv.back, conv.x)

\* 0.123 g to kilograms and back in the order route: the neighbour of 0.123.
C9_Witness ==
    /\ SameFamilyRoundTrip
    /\ conv.impl = "orderRoute"
    /\ conv.unit = "grams" /\ conv.inventory_unit = "kilograms"
    /\ conv.back # conv.x
    /\ WithinOneUlp(conv.back, conv.x)

\* ---------------------------------------------------------------------- C11
\* C11: the ledger is append-only: every step leaves the entries written so far
\* in place, unchanged, and at most adds entries after them.
C11_AppendOnly ==
    [][Len(ledger') >= Len(ledger) /\ SubSeq(ledger', 1, Len(ledger)) = ledger]_vars

\* ---------------------------------------------------------------------- C12
\* C12: a request that changed a quantity by add-stock or remove-stock ends with
\* exactly one new ledger entry for that item, also when the ledger write fails.
C12_ChangePairedWithEntry ==
    [][\A a \in Admins :
          (adm[a].pc \in {"addLog", "removeLog"} /\ adm'[a].pc = "done")
          => /\ Len(ledger') = Len(ledger) + 1
             /\ ledger'[Len(ledger')].inventory_item_id = adm[a].item
             /\ ledger'[Len(ledger')].quantity = adm[a].quantity]_vars

\* ---------------------------------------------------------------------- C13
\* C13: a removal of more than the on-hand quantity is clamped, not failed: no
\* removal is answered "Insufficient stock".
C13_RemovalClamped ==
    \A a \in Admins : adm[a].message # "Insufficient stock"

\* ---------------------------------------------------------------------- C14
\* C14: an edit that changes the quantity of an item goes on to write an ADJUST
\* entry, and the amount it records is the difference between the quantity
\* just before and just after the UPDATE of the edit; the entry is then written.
C14_AdjustRecordsChange ==
    [][\A a \in Admins :
          /\ (adm[a].pc = "editUpdate" /\ adm'[a].pc # "editUpdate"
                /\ inv'[adm[a].item].quantity # inv[adm[a].item].quantity)
             => /\ adm'[a].pc = "editLog"
                /\ AbsDiff(adm'[a].quantity, adm'[a].oldQty)
                     = AbsDiff(inv'[adm[a].item].quantity, inv[adm[a].item].quantity)
          /\ (adm[a].pc = "editLog" /\ adm'[a].pc = "done")
             => /\ Len(ledger') = Len(ledger) + 1
                /\ ledger'[Len(ledger')].transaction_type = "ADJUST"
                /\ ledger'[Len(ledger')].quantity = AbsDiff(adm[a].quantity, adm[a].oldQty)]_vars

\* ---------------------------------------------------------------------- C15
\* The order of client c is at the BOM lookup of a line whose product has no
\* BOM entry.
AtLineWithoutBom(c) ==
    /\ tx[c].pc = "selectBom"
    /\ ~tx[c].aborted
    /\ \A b \in bom : b.product_id # CurLine(tx[c]).product_id

\* C15: the lookup of a line whose product has no BOM entry changes no
\* quantity, takes no row lock and writes no ledger entry, and the order goes on
\* with its next line, or to COMMIT after the last one, without failing.
C15_LineWithoutBomStep ==
    \A c \in Clients :
        (AtLineWithoutBom(c) /\ tx'[c] # tx[c] /\ faults' = faults)
        => /\ UNCHANGED <<inv, pend, lock, ledger, bom>>
           /\ tx'[c].newLedger = tx[c].newLedger
           /\ ~tx'[c].aborted
           /\ tx'[c].lines = tx[c].lines
           /\ IF tx[c].line < Len(tx[c].lines)
              THEN tx'[c].pc = "selectBom" /\ tx'[c].line = tx[c].line + 1
              ELSE tx'[c].pc = "commit"

C15_LineWithoutBom == [][C15_LineWithoutBomStep]_vars

\* An order of a product without BOM entries followed by a product with some is
\* committed, with the SALE entries of the second line.
C15_Witness ==
    \E o \in orders :
        /\ Len(LinesOf(o)) = 2
        /\ \A b \in bom : b.product_id # LinesOf(o)[1].product_id
        /\ \E b \in bom : b.product_id = LinesOf(o)[2].product_id
        /\ \E k \in 1..Len(ledger) :
              ledger[k].transaction_type = "SALE" /\ ledger[k].reference_id = o

\* ---------------------------------------------------------------------- C16
\* The tables a BOM request may touch.
CatalogTables == <<inv, bom, ledger, products, ingredients>>

C16_Unique ==
    \A b1, b2 \in bom :
        (b1.product_id = b2.product_id /\ b1.inventory_item_id = b2.inventory_item_id)
        => b1 = b2

\* The INSERT of a mapping whose pair is already mapped.
C16_DuplicateStep ==
    \A a \in Admins :
        (cat[a].pc = "bomInsert" /\ cat'[a] # cat[a]
           /\ \E b \in bom : b.product_id = cat[a].product /\ b.inventory_item_id = cat[a].item)
        => /\ cat'[a].pc = "done"
           /\ cat'[a].status = 400
           /\ cat'[a].message = "This inventory item is already mapped to this product"
           /\ UNCHANGED CatalogTables

\* C16: there is at most one BOM entry per (product, inventory item) pair in
\* every state, and adding a mapping for a pair that is already mapped is
\* answered with the duplicate-mapping error and changes no table.
C16_OneEntryPerPair == []C16_Unique /\ [][C16_DuplicateStep]_vars

\* A request to map item 1 to product 1 again was refused; the first mapping is there.
C16_Witness ==
    \E a \in Admins :
        /\ cat[a].op = "addBom" /\ cat[a].pc = "done"
        /\ cat[a].message = "This inventory item is already mapped to this product"
        /\ Cardinality({b \in bom : b.product_id = cat[a].product
                                    /\ b.inventory_item_id = cat[a].item}) = 1

\* ---------------------------------------------------------------------- C17
\* C17: every BOM entry references a product and an inventory item that both
\* exist; the entries of a deleted item or product are deleted with it.
C17_BomReferencesExist ==
    \A b \in bom : b.product_id \in products /\ inv[b.inventory_item_id].present

\* Item 1, which product 1 used, was deleted while product 1 is still there.
C17_Witness ==
    /\ ~inv[1].present
    /\ 1 \in products
    /\ \E a \in Admins : adm[a].pc = "done" /\ adm[a].status = 200
    /\ \E b \in bom : b.product_id = 1

\* ---------------------------------------------------------------------- C18
\* The recipe a list asks for: one entry per ingredient listed with a positive
\* quantity, carrying the quantity of its last mention.
Listed(product, list) ==
    { [product_id |-> product, inventory_item_id |-> i,
       quantity |-> list[CHOOSE k \in 1..Len(list) :
                           /\ list[k].inventory_item_id = i /\ list[k].quantity > 0
                           /\ \A j \in (k + 1)..Len(list) :
                                 ~(list[j].inventory_item_id = i /\ list[j].quantity > 0)].quantity]
      : i \in {j \in Items : \E k \in 1..Len(list) :
                                list[k].inventory_item_id = j /\ list[k].quantity > 0} }

RecipeOf(product) == {x \in ingredients : x.product_id = product}

\* A setRecipe call leaves one entry for each ingredient its list asks for, no
\* pair twice, and a call on a recipe that is already the one its list asks for
\* changes nothing.
C18_ReplaceStep ==
    \A a \in Admins :
        (cat'[a] # cat[a] /\ cat'[a].op = "setRecipe" /\ cat'[a].status = 200)
        => /\ Listed(cat'[a].product, cat'[a].list) \subseteq ingredients'
           /\ \A x, y \in ingredients' :
                 (x.product_id = y.product_id /\ x.inventory_item_id = y.inventory_item_id)
                    => x = y
           /\ RecipeOf(cat'[a].product) = Listed(cat'[a].product, cat'[a].list)
                 => ingredients' = ingredients

\* Two reads of the same recipe return its ingredients in the same order.
C18_StableOrder ==
    \A a, b \in Admins :
        (/\ cat[a].op = "getIngredients" /\ cat[b].op = "getIngredients"
         /\ cat[a].product = cat[b].product
         /\ {cat[a].rows[k] : k \in 1..Len(cat[a].rows)}
               = {cat[b].rows[k] : k \in 1..Len(cat[b].rows)})
        => cat[a].rows = cat[b].rows

\* C18: setRecipe called twice in succession with the same list leaves the
\* same recipe as one call, one entry per listed ingredient, and entriesFor
\* returns the ingredients in the same order on every call.
C18_IdempotentReplace == [][C18_ReplaceStep]_vars /\ []C18_StableOrder


\* ---------------------------------------------------------------------- C19
\* A BOM or recipe request with a validation defect: a required quantity that is
\* not positive, or a unit that is given and is not one of the five units.
Defective(r) ==
    \/ r.op \in {"addBom", "updateBom"} /\ (r.quantity <= 0 \/ r.unit \notin Units \cup {NoUnit})
    \/ r.op = "setRecipe" /\ \E k \in 1..Len(r.list) : r.list[k].quantity <= 0

C19_RejectStep ==
    \A a \in Admins :
        (cat'[a] # cat[a] /\ Defective(cat'[a])) =>
            /\ CatalogTables' = CatalogTables
            /\ cat'[a].pc = "done" => cat'[a].status >= 400

\* C19: every BOM or recipe request with a validation defect (non-positive
\* required quantity, unit outside the five units) is answered with an error
\* status and no step of it changes the inventory, the BOM, the recipes or the
\* ledger.
C19_ValidationRejects == [][C19_RejectStep]_vars


\* ---------------------------------------------------------------------- C20
LowStockExpected(table) ==
    {i \in Items : table[i].low_stock_threshold > 0
                   /\ table[i].quantity <= table[i].low_stock_threshold}

\* C20: the lowStock set an alert route returns is exactly the set of items
\* whose threshold is greater than 0 and whose quantity is at most the
\* threshold, items with quantity 0 included.
C20_LowStockExact ==
    alerts.op \in {"alerts", "alerts/summary"} =>
        alerts.lowStock = LowStockExpected(alerts.table)


\* ---------------------------------------------------------------------- C21
Statuses == {"normal", "low_stock", "expiring_soon", "expired"}

\* C21: the listing gives every item exactly one of the four statuses, and an
\* item whose low-stock threshold is 0 is never given the status low_stock.
C21_StatusClassification ==
    alerts.op = "list" =>
        \A i \in Items :
            /\ alerts.status[i] \in Statuses
            /\ alerts.table[i].low_stock_threshold = 0 => alerts.status[i] # "low_stock"

\* ---------------------------------------------------------------------- C22
\* C22: with now the evaluation time of the route and window its lookahead, an
\* item is in expired exactly when its expiry date is before now and in
\* expiringSoon exactly when now <= date <= now + window; an item expiring
\* today is in expiringSoon.
C22_ExpiryClassification ==
    alerts.op \in {"alerts", "alerts/summary"} =>
        \A i \in Items :
            (alerts.op = "alerts" => alerts.table[i].isActive) =>
                /\ i \in alerts.expired <=>
                       \E d \in alerts.table[i].expire_date : Midnight(d) < alerts.now
                /\ i \in alerts.expiringSoon <=>
                       \E d \in alerts.table[i].expire_date :
                           /\ alerts.now <= Midnight(d)
                           /\ Midnight(d) <= alerts.now + alerts.window


\* ---------------------------------------------------------------------- C24
\* C24: an order request answered 201 with an order id has its order row, its
\* lines and its deductions committed: the orders table holds that id and
\* order_items holds lines of it.
C24_SuccessMeansCommitted ==
    \A c \in Clients :
        (tx[c].pc = "done" /\ tx[c].status = 201) =>
            /\ tx[c].orderId \in orders
            /\ Len(LinesOf(tx[c].orderId)) > 0


\* ---------------------------------------------------------------------- C23
\* One order of one unit of product 1 was placed, alone, and is committed.
OneUnitSold ==
    /\ orders = {1}
    /\ nextOrderId = 2
    /\ order_items = << [order_id |-> 1, product_id |-> 1, qty |-> 1] >>
    /\ \A c \in Clients : tx[c].pc \in {"idle", "done"}

C23_Scenario ==
    OneUnitSold =>
        /\ inv[1].quantity = 0
        /\ Quantities(RowsOf(1, "SALE")) = << StockHeld >>

\* Item i holds nothing because orders took all of it.
SoldOut(i) == inv[i].quantity = 0 /\ Len(RowsOf(i, "SALE")) > 0

C23_ReportedAnyThresholdStep ==
    (alerts' # alerts /\ alerts'.op = "alerts/summary") =>
        \A i \in Items : SoldOut(i) => i \in alerts'.lowStock

C23_ReportedStep ==
    (alerts' # alerts /\ alerts'.op = "alerts/summary") =>
        \A i \in Items :
            SoldOut(i) => (i \in alerts'.lowStock <=> alerts.table[i].low_stock_threshold > 0)

\* C23 as stated: after the order of the scenario the item holds 0 with one
\* SALE entry of 150 g, and an item that orders have sold out is in the
\* lowStock set of the next alert summary for every threshold >= 0.
C23_EndToEnd == []C23_Scenario /\ [][C23_ReportedAnyThresholdStep]_vars

\* C23, amended: as above, and a sold-out item is in the lowStock set of the
\* next alert summary exactly when its threshold is greater than 0.
C23_EndToEndThresholdSet == []C23_Scenario /\ [][C23_ReportedStep]_vars

C23_Witness ==
    /\ OneUnitSold
    /\ alerts.op = "alerts/summary"
    /\ alerts.table[1].quantity = 0
    /\ alerts.table[1].low_stock_threshold > 0
    /\ 1 \in alerts.lowStock
    /\ Quantities(RowsOf(1, "SALE")) = << StockHeld >>


\* ---------------------------------------------------------------------- C25
\* The SALE rows the transaction of client c has written for the item.
OwnSales(c, item) ==
    SelectSeq(tx[c].newLedger, LAMBDA r : r.inventory_item_id = item)

\* The lines of the request of client c whose product has a BOM entry on the item.
OwnLinesUsing(c, item) ==
    {k \in 1..Len(tx[c].lines) : BomFor(tx[c].lines[k].product_id, item) # {}}

C25_CommitStep ==
    \A c \in Clients :
        (tx[c].pc = "commit" /\ tx'[c].pc = "done" /\ tx'[c].status = 201 /\ ~tx[c].aborted) =>
            \A i \in Items :
                Cardinality(OwnLinesUsing(c, i)) >= 2 =>
                    /\ SumQty(OwnSales(c, i)) = inv[i].quantity - inv'[i].quantity
                    /\ SumQty(OwnSales(c, i)) <= inv[i].quantity

\* C25: when several lines of one order consume the same item, the sum of the
\* order's SALE amounts for the item equals the decrease of the item's quantity
\* that the order commits, and is at most the quantity before the order.
C25_LinesShareItem == [][C25_CommitStep]_vars


\* ---------------------------------------------------------------------- C26
C26_RemoveStep ==
    \A a \in Admins :
        (/\ adm[a].pc = "removeUpdate"
         /\ adm'[a] # adm[a]
         /\ inv[adm[a].item].present
         /\ adm[a].quantity > inv[adm[a].item].quantity) =>
            /\ inv' = inv
            /\ adm'[a].message = "Insufficient stock"

\* C26: a remove-stock request whose amount exceeds the quantity present at
\* the moment of its update is rejected with "Insufficient stock" and changes
\* nothing, so two concurrent removals that together ask for more than is on
\* hand never both succeed.
C26_ConcurrentRemovals == [][C26_RemoveStep]_vars


\* ---------------------------------------------------------------------- C27
\* C27: no order request fails because its transaction and another one
\* updated the items they share in different orders (no request is ended by
\* the deadlock detector).
C27_NoLockOrderFailure == \A c \in Clients : tx[c].err # "deadlock"


\* ---------------------------------------------------------------------- C28
C28_NoIncreaseStep == \A i \in Items : inv'[i].quantity <= inv[i].quantity

C28_SaleAmountsPositive ==
    \A k \in 1..Len(ledger) : ledger[k].transaction_type = "SALE" => ledger[k].quantity > 0

\* C28: no step of an order increases an item's quantity, whatever the line
\* quantities (zero and negative included) and the BOM, and no SALE ledger
\* entry carries a zero or negative amount.
C28_OrdersOnlyDecrease == [][C28_NoIncreaseStep]_vars /\ []C28_SaleAmountsPositive


\* ---------------------------------------------------------------------- C29
C29_EndStep ==
    \A a \in Admins :
        (cat'[a] # cat[a] /\ cat'[a].op = "setRecipe" /\ cat'[a].pc = "done") =>
            IF cat'[a].status = 200
            THEN /\ \/ {x \in ingredients' : x.product_id = cat'[a].product}
                          = Listed(cat'[a].product, cat'[a].list)
                    \/ ingredients' = ingredients
                 /\ {x \in ingredients' : x.product_id # cat'[a].product}
                       = {x \in ingredients : x.product_id # cat'[a].product}
            ELSE ingredients' = ingredients

C29_OnlyCommitWrites ==
    ingredients' # ingredients =>
        \E a \in Admins : cat[a].pc = "recipeCommit" /\ cat'[a].pc = "done"

\* C29: a setRecipe that fails leaves every stored recipe as it was, the
\* stored recipes change only when a setRecipe commits, and a commit that
\* changes the recipe of the product leaves exactly the recipe of the request:
\* readers see the complete old recipe or the complete new one.
C29_AtomicReplace == [][C29_EndStep /\ C29_OnlyCommitWrites]_vars


\* ---------------------------------------------------------------------- C30
\* No request is in flight: every quantity change has been followed by its
\* ledger insert.
AtRest ==
    /\ \A c \in Clients : tx[c].pc \in {"idle", "done"}
    /\ \A a \in Admins : adm[a].pc \in {"idle", "done"}

\* C30: after any sequence of item creations, stock additions, stock removals
\* and orders, every item's quantity is the sum of its ADD amounts minus the
\* sum of its REMOVE amounts minus the sum of its SALE amounts.
C30_LedgerReconciles ==
    AtRest =>
        \A i \in Items :
            inv[i].present =>
                inv[i].quantity = SumQty(RowsOf(i, "ADD")) - SumQty(RowsOf(i, "REMOVE"))
                                     - SumQty(RowsOf(i, "SALE"))

====
